---- MODULE Spec2Model ----
(***************************************************************************)
(* A model of the weathersync library (package weathersync, client.go and  *)
(* types.go) and of the weather-compare fetcher                            *)
(* (weather-compare/internal/fetcher/fetcher.go).                          *)
(*                                                                         *)
(* Spec        one call of Client.FetchMultiple: the launching loop, one   *)
(*             goroutine per location running Client.FetchWeather against  *)
(*             a remote endpoint, the WaitGroup and the caller's context.  *)
(* SpecFair    Spec with the fairness the Go scheduler and net/http give.  *)
(* SpecFetcher one call of fetcher.FetchWeatherData.                       *)
(* SpecPipeline one run of main of weather-compare: a WaitGroup and an     *)
(*             observer per continent, one fetch goroutine per city, the   *)
(*             two channels, and the call of CompareWeatherData.           *)
(* SpecPipelineFair SpecPipeline with the fairness of the Go scheduler.    *)
(* SpecCompare one call of comparer.CompareWeatherData.                    *)
(* SpecNew     one call of New with a list of options.                     *)
(* SpecBoth    one Client.FetchWeather and one fetcher.FetchWeatherData,   *)
(*             side by side, against endpoints that answer anything.       *)
(* SpecCmd     one run of main of the cmd tool: the locations and the      *)
(*             continent map, FetchMultiple, displayResults.               *)
(*                                                                         *)
(* Time is discrete.  Temperatures, coordinates and durations are integers.*)
(***************************************************************************)
EXTENDS Integers, Sequences, FiniteSets, TLC

\* ------------------------------------------------------------------ bounds
MaxLocs == 2
MaxTime == 2

\* ------------------------------------------------------------- data model
StatusOK == 200

Location(name, lat, lon) == [Name |-> name, Latitude |-> lat, Longitude |-> lon]

ZeroLocation == Location("", 0, 0)

\* the places of the tests and examples
Cities == <<Location("Berlin", 52, 13), Location("Tokyo", 35, 139),
            Location("Sydney", -33, 151), Location("Paris", 48, 2)>>

\* the input lists: n distinct places, and one list naming a place twice
LocationLists ==
    {SubSeq(Cities, 1, n) : n \in 0..MaxLocs} \cup {<<Cities[2], Cities[2]>>}

\* an error value: the message fmt.Errorf builds, the status code it prints
\* (0: none) and the error it wraps ("none": none)
Err(msg, code, cause) == [msg |-> msg, code |-> code, cause |-> cause]

NilErr == Err("nil", 0, "none")

WeatherData(loc, temp, dur, ts, err) ==
    [Location |-> loc, Temperature |-> temp, FetchDuration |-> dur,
     Timestamp |-> ts, Error |-> err]

\* the zero value of the struct, what make([]WeatherData, n) fills the slice with
ZeroWeatherData == WeatherData(ZeroLocation, 0, 0, 0, NilErr)

\* ------------------------------------------------------ remote endpoint
\* the temperature the endpoint reports, whatever the place asked for: 15.3
\* degrees.  The client's temperatures are counted in tenths of a degree.
RemoteTemp(location) == 153

\* a response body: JSON carrying current.temperature_2m, JSON without that
\* field, bytes that are no JSON (or a body whose read fails), or no bytes at all
BodyKinds == {"temp", "nofield", "invalid", "empty"}

ErrorPage == "invalid"

Statuses == {StatusOK, 204, 500}

Response(status, body) == [status |-> status, body |-> body]

Responses == {Response(StatusOK, b) : b \in BodyKinds}
             \cup {Response(s, ErrorPage) : s \in Statuses \ {StatusOK}}

NoResp == Response(0, "none")

\* the body of a response whose body has not been read
BodyPending == "pending"

\* what is left of a body whose read was interrupted
BodyCut == "cut"

\* json.NewDecoder(resp.Body).Decode(&apiResp) for the request of a location:
\* a missing field leaves the zero value and is no error
DecodeCurrent(body, location) ==
    CASE body = "temp"    -> [err |-> FALSE, temp |-> RemoteTemp(location)]
      [] body = "nofield" -> [err |-> FALSE, temp |-> 0]
      [] OTHER            -> [err |-> TRUE, temp |-> 0]

\* --------------------------------------------------------------- state
VARIABLES
    \* one call of Client.FetchMultiple
    locations,  \* the argument: the list of locations (indices 1..n here, 0..n-1 in Go)
    apiURLOk,   \* c.apiURL yields a URL http.NewRequestWithContext accepts
    timeout,    \* c.timeout = c.httpClient.Timeout in ticks, 0: no timeout
    ctx,        \* the caller's context: cancelled, and ticks left to its deadline (-1: none)
    now,        \* the wall clock, never the zero time
    mpc,        \* where FetchMultiple is: "loop", "wait", "returned"
    idx,        \* the loop index of the launching loop
    wg,         \* the WaitGroup counter
    results,    \* the shared result slice
    gpc,        \* where the goroutine of each index is
    elapsed,    \* per goroutine: time.Since(start) while FetchWeather runs
    resp,       \* per goroutine: the response http.Client.Do returned
    fw,         \* per goroutine: what FetchWeather returned, (data, err)
    calls,      \* the number of requests that reached the remote endpoint
    \* one call of fetcher.FetchWeatherData
    fd_city,    \* the arguments: a city with its name and coordinates
    fd_pc,      \* where FetchWeatherData is: "called", "inflight", "reading", "returned"
    fd_elapsed, \* time.Since(start)
    fd_resp,    \* the response http.Get returned
    fd_ret,     \* what FetchWeatherData returned, (result, err)
    \* one run of main of weather-compare
    cfg,        \* cfg.Continents: the continents with their cities
    sharedCont, \* the loop variable cont is one variable for all iterations
                \* (language versions before Go 1.22), or one per iteration
    ppc,        \* where main is: "range", "cities", "collect", "compare", "done"
    ci,         \* the index of the loop over the continents
    cj,         \* the index of the loop over the cities of a continent
    cont,       \* the (index of the) continent last assigned to cont
    contWg,     \* per continent: the counter of its WaitGroup
    contElapsed,\* per continent: time.Since(start) while its fetches run
    observer,   \* per continent: where its observer goroutine is
    fpc,        \* per fetch goroutine: where it is
    fElapsed,   \* per fetch goroutine: time.Since(start) in FetchWeatherData
    fRes,       \* per fetch goroutine: its variable res
    resultCh,   \* the buffered channel of results
    contDoneCh, \* the buffered channel of continent durations
    closed,     \* both channels are closed
    di,         \* the index of the loop that receives the durations
    weatherData,       \* the collected results
    contDurations,     \* the map from continent name to duration
    comparisonSummary, \* the report
    \* one call of New
    opts,       \* the arguments: the options, in the order given
    npc,        \* where New is: "called", "returned", "panicked"
    newClient,  \* the Client New has built
    httpClients,\* the Timeout field of every http.Client there is
    \* one run of main of cmd/weathersync
    cmdCfg,       \* cfg.Continents: the continents with their cities
    cpc,          \* where main is: "loaded", "prepared", "fetched", "displayed"
    allLocations, \* the cities of all continents, in the order of the file
    continentMap, \* city name -> continent
    fetched,      \* main's results, what FetchMultiple returned
    groups,       \* displayResults: continent -> the results grouped under it
    shown         \* displayResults: the sections printed, in the order printed

fmVars == <<locations, apiURLOk, timeout, ctx, now, mpc, idx, wg, results,
            gpc, elapsed, resp, fw, calls>>

fdVars == <<fd_city, fd_pc, fd_elapsed, fd_resp, fd_ret>>

plVars == <<cfg, sharedCont, ppc, ci, cj, cont, contWg, contElapsed, observer, fpc,
            fElapsed, fRes, resultCh, contDoneCh, closed, di, weatherData,
            contDurations, comparisonSummary>>

nwVars == <<opts, npc, newClient, httpClients>>

cmVars == <<cmdCfg, cpc, allLocations, continentMap, fetched, groups, shown>>

vars == <<fmVars, fdVars, plVars, nwVars, cmVars>>

\* ------------------------------------------------- state of FetchMultiple
N == Len(locations)

Idx == 1..N

\* ctx.Done() is closed: cancelled by the caller, or the deadline has passed
CtxDone == ctx.cancelled \/ ctx.remaining = 0

\* the http.Client.Timeout of the exchange has run out
TimedOut(i) == timeout > 0 /\ elapsed[i] >= timeout

NilData == <<>>

NoReturn == [data |-> NilData, err |-> NilErr]

\* an error return of FetchWeather: return nil, fmt.Errorf(...)
FailWith(msg, code, cause) == [data |-> NilData, err |-> Err(msg, code, cause)]

\* a slip: the success record carries no timing
SuccessWithoutTiming(location, temp, dur, ts) ==
    [data |-> <<WeatherData(location, temp, 0, 0, NilErr)>>, err |-> NilErr]

\* the success return of FetchWeather
Success(location, temp, dur, ts) ==
    [data |-> <<WeatherData(location, temp, dur, ts, NilErr)>>, err |-> NilErr]


\* a slip: the status error is returned together with a filled-in record
AfterResponseBoth(location, r, dur, ts) ==
    IF r.status # StatusOK
    THEN [data |-> <<WeatherData(location, 0, dur, ts, NilErr)>>,
          err |-> Err("API returned status", r.status, "none")]
    ELSE LET d == DecodeCurrent(r.body, location)
         IN  IF d.err
             THEN FailWith("decode response", 0, "json")
             ELSE Success(location, d.temp, dur, ts)

\* a slip: every 2xx status passes the status check
AfterResponseAny2xx(location, r, dur, ts) ==
    IF r.status < 200 \/ r.status >= 300
    THEN FailWith("API returned status", r.status, "none")
    ELSE LET d == DecodeCurrent(r.body, location)
         IN  IF d.err
             THEN FailWith("decode response", 0, "json")
             ELSE Success(location, d.temp, dur, ts)

\* FetchWeather from the response on: the status check, Decode, the return
AfterResponse(location, r, dur, ts) ==
    IF r.status # StatusOK
    THEN FailWith("API returned status", r.status, "none")
    ELSE LET d == DecodeCurrent(r.body, location)
         IN  IF d.err
             THEN FailWith("decode response", 0, "json")
             ELSE Success(location, d.temp, dur, ts)

\* what the goroutine writes into its slot from FetchWeather's (data, err)
SlotValue(location, ret) ==
    IF ret.err # NilErr
    THEN WeatherData(location, 0, 0, 0, ret.err)
    ELSE ret.data[1]

InitFM ==
    /\ locations \in LocationLists
    /\ apiURLOk \in BOOLEAN
    /\ timeout \in {0, MaxTime}
    /\ ctx \in [cancelled : {FALSE}, remaining : -1..MaxTime]
    /\ now = 1
    /\ mpc = "loop"
    /\ idx = 1
    /\ wg = 0
    /\ results = [i \in Idx |-> ZeroWeatherData]
    /\ gpc = [i \in Idx |-> "none"]
    /\ elapsed = [i \in Idx |-> 0]
    /\ resp = [i \in Idx |-> NoResp]
    /\ fw = [i \in Idx |-> NoReturn]
    /\ calls = 0


\* a slip: the loop runs one index too far
M_LaunchOneMore ==
    /\ mpc = "loop"
    /\ idx <= N + 1
    /\ wg' = wg + 1
    /\ gpc' = IF idx \in Idx THEN [gpc EXCEPT ![idx] = "spawned"] ELSE gpc
    /\ idx' = idx + 1
    /\ UNCHANGED <<locations, apiURLOk, timeout, ctx, now, mpc, results,
                   elapsed, resp, fw, calls>>

\* a slip: the loop launches a fetch only when the one before has ended
M_LaunchSequential ==
    /\ mpc = "loop"
    /\ idx <= N
    /\ idx > 1 => gpc[idx - 1] = "done"
    /\ wg' = wg + 1
    /\ gpc' = [gpc EXCEPT ![idx] = "spawned"]
    /\ idx' = idx + 1
    /\ UNCHANGED <<locations, apiURLOk, timeout, ctx, now, mpc, results,
                   elapsed, resp, fw, calls>>

\* ---------------------------------------------------------- FetchMultiple
\* one iteration of the loop: wg.Add(1); go func(index, location) {...}(i, loc)
M_Launch ==
    /\ mpc = "loop"
    /\ idx <= N
    /\ wg' = wg + 1
    /\ gpc' = [gpc EXCEPT ![idx] = "spawned"]
    /\ idx' = idx + 1
    /\ UNCHANGED <<locations, apiURLOk, timeout, ctx, now, mpc, results,
                   elapsed, resp, fw, calls>>

\* the range loop is exhausted: FetchMultiple reaches wg.Wait()
M_LoopEnd ==
    /\ mpc = "loop"
    /\ idx > N
    /\ mpc' = "wait"
    /\ UNCHANGED <<locations, apiURLOk, timeout, ctx, now, idx, wg, results,
                   gpc, elapsed, resp, fw, calls>>


\* a slip: the wait ends when one goroutine or none is left
M_ReturnEarly ==
    /\ mpc = "wait"
    /\ wg <= 1
    /\ mpc' = "returned"
    /\ UNCHANGED <<locations, apiURLOk, timeout, ctx, now, idx, wg, results,
                   gpc, elapsed, resp, fw, calls>>

\* wg.Wait() unblocks when the counter is zero; return results
M_Return ==
    /\ mpc = "wait"
    /\ wg = 0
    /\ mpc' = "returned"
    /\ UNCHANGED <<locations, apiURLOk, timeout, ctx, now, idx, wg, results,
                   gpc, elapsed, resp, fw, calls>>


\* a slip: the slot is the next free one, in the order of completion
FinishInCompletionOrder(i, ret) ==
    LET k == 1 + Cardinality({j \in Idx : gpc[j] \in {"stored", "done"}})
    IN  /\ fw' = [fw EXCEPT ![i] = ret]
        /\ results' = [results EXCEPT ![k] = SlotValue(locations[i], ret)]
        /\ gpc' = [gpc EXCEPT ![i] = "stored"]
        /\ elapsed' = [elapsed EXCEPT ![i] = 0]

\* a slip: a failure is written into every slot
FinishPoisoning(i, ret) ==
    /\ fw' = [fw EXCEPT ![i] = ret]
    /\ results' = IF ret.err # NilErr
                  THEN [j \in Idx |-> WeatherData(locations[j], 0, 0, 0, ret.err)]
                  ELSE [results EXCEPT ![i] = SlotValue(locations[i], ret)]
    /\ gpc' = [gpc EXCEPT ![i] = "stored"]
    /\ elapsed' = [elapsed EXCEPT ![i] = 0]

\* ------------------------------------------------- the goroutine's fetch
\* FetchWeather returns ret to the goroutine (start goes out of scope), which
\* writes its slot: results[index] = WeatherData{Location: location, Error: err},
\* or *data.  The deferred wg.Done() is still to run.
Finish(i, ret) ==
    /\ fw' = [fw EXCEPT ![i] = ret]
    /\ results' = [results EXCEPT ![i] = SlotValue(locations[i], ret)]
    /\ gpc' = [gpc EXCEPT ![i] = "stored"]
    /\ elapsed' = [elapsed EXCEPT ![i] = 0]

\* the goroutine starts: start := time.Now(); NewRequestWithContext fails on
\* a bad URL; httpClient.Do refuses a context that is already done; otherwise
\* the request goes out and Do blocks
G_Start(i) ==
    /\ gpc[i] = "spawned"
    /\ IF ~apiURLOk
       THEN /\ Finish(i, FailWith("create request", 0, "parse"))
            /\ UNCHANGED calls
       ELSE IF CtxDone
       THEN /\ Finish(i, FailWith("http request", 0, "context"))
            /\ UNCHANGED calls
       ELSE /\ gpc' = [gpc EXCEPT ![i] = "inflight"]
            /\ elapsed' = [elapsed EXCEPT ![i] = 0]
            /\ calls' = calls + 1
            /\ UNCHANGED <<fw, results>>
    /\ UNCHANGED <<locations, apiURLOk, timeout, ctx, now, mpc, idx, wg, resp>>


\* Do returns the response r before the context is done and before the client
\* timeout (a round trip takes time): a status other than 200 is returned as
\* an error at once, its body unread; with 200 the goroutine goes on to
\* Decode, which blocks until the body is in, and nothing of the body is
\* known yet
G_Response(i, r) ==
    /\ gpc[i] = "inflight"
    /\ ~CtxDone
    /\ ~TimedOut(i)
    /\ elapsed[i] >= 1
    /\ IF r.status # StatusOK
       THEN /\ resp' = [resp EXCEPT ![i] = r]
            /\ Finish(i, AfterResponse(locations[i], r, elapsed[i], now))
       ELSE /\ resp' = [resp EXCEPT ![i] = Response(r.status, BodyPending)]
            /\ gpc' = [gpc EXCEPT ![i] = "reading"]
            /\ UNCHANGED <<fw, results, elapsed>>
    /\ UNCHANGED <<locations, apiURLOk, timeout, ctx, now, mpc, idx, wg, calls>>

\* the body arrives in the transport's buffer while the connection is open,
\* which it is until the context is done or the client timeout runs out; the
\* small bodies of the endpoint can arrive together with the headers
G_BodyIn(i) ==
    /\ gpc[i] = "reading"
    /\ ~CtxDone
    /\ ~TimedOut(i)
    /\ gpc' = [gpc EXCEPT ![i] = "buffered"]
    /\ UNCHANGED <<locations, apiURLOk, timeout, ctx, now, mpc, idx, wg, results,
                   elapsed, resp, fw, calls>>

\* a slip: the body is read on a connection the context does not reach, it
\* still arrives, and is taken, after the context is done
G_DecodeIgnoringCtx(i, r) ==
    /\ gpc[i] \in {"reading", "buffered"}
    /\ r.status = resp[i].status
    /\ resp' = [resp EXCEPT ![i] = r]
    /\ Finish(i, AfterResponse(locations[i], r, elapsed[i], now))
    /\ UNCHANGED <<locations, apiURLOk, timeout, ctx, now, mpc, idx, wg, calls>>

\* Decode reads the body of r from the buffer and returns, then the return
\* of FetchWeather.  Nothing here looks at the context or at the timeout: a
\* body that is in the buffer is read also after the context is done
G_Decode(i, r) ==
    /\ gpc[i] = "buffered"
    /\ r.status = resp[i].status
    /\ resp' = [resp EXCEPT ![i] = r]
    /\ Finish(i, AfterResponse(locations[i], r, elapsed[i], now))
    /\ UNCHANGED <<locations, apiURLOk, timeout, ctx, now, mpc, idx, wg, calls>>

\* the context is done or the client timeout has run out while Decode waits
\* for a body that has not arrived: the read fails, the body is cut short,
\* and Decode returns the error
G_ReadAbort(i) ==
    /\ gpc[i] = "reading"
    /\ CtxDone \/ TimedOut(i)
    /\ resp' = [resp EXCEPT ![i].body = BodyCut]
    /\ Finish(i, FailWith("decode response", 0, IF CtxDone THEN "context" ELSE "timeout"))
    /\ UNCHANGED <<locations, apiURLOk, timeout, ctx, now, mpc, idx, wg, calls>>

\* a slip: a failed exchange is tried again before the error is returned
G_ConnFailRetrying(i) ==
    /\ gpc[i] = "inflight"
    /\ IF calls <= N
       THEN /\ calls' = calls + 1
            /\ UNCHANGED <<results, gpc, elapsed, fw>>
       ELSE /\ Finish(i, FailWith("http request", 0, "connection"))
            /\ UNCHANGED calls
    /\ UNCHANGED <<locations, apiURLOk, timeout, ctx, now, mpc, idx, wg, resp>>

\* the connection fails: Do returns an error
G_ConnFail(i) ==
    /\ gpc[i] = "inflight"
    /\ Finish(i, FailWith("http request", 0, "connection"))
    /\ UNCHANGED <<locations, apiURLOk, timeout, ctx, now, mpc, idx, wg,
                   resp, calls>>


\* a slip: only the client timeout ends a pending call, the context is not watched
G_AbortOnTimeoutOnly(i) ==
    /\ gpc[i] = "inflight"
    /\ TimedOut(i)
    /\ Finish(i, FailWith("http request", 0, "timeout"))
    /\ UNCHANGED <<locations, apiURLOk, timeout, ctx, now, mpc, idx, wg,
                   resp, calls>>

\* a slip: the client timeout is not applied, only the context ends a call
G_AbortOnContextOnly(i) ==
    /\ gpc[i] = "inflight"
    /\ CtxDone
    /\ Finish(i, FailWith("http request", 0, "context"))
    /\ UNCHANGED <<locations, apiURLOk, timeout, ctx, now, mpc, idx, wg,
                   resp, calls>>

\* the context is done or the client timeout has run out while the exchange
\* is pending: net/http abandons it and Do returns an error
G_Abort(i) ==
    /\ gpc[i] = "inflight"
    /\ CtxDone \/ TimedOut(i)
    /\ Finish(i, FailWith("http request", 0, IF CtxDone THEN "context" ELSE "timeout"))
    /\ UNCHANGED <<locations, apiURLOk, timeout, ctx, now, mpc, idx, wg,
                   resp, calls>>

\* a slip: the goroutine clears its slot again on the way out
G_DoneRewriting(i) ==
    /\ gpc[i] = "stored"
    /\ wg' = wg - 1
    /\ gpc' = [gpc EXCEPT ![i] = "done"]
    /\ results' = [results EXCEPT ![i] = ZeroWeatherData]
    /\ UNCHANGED <<locations, apiURLOk, timeout, ctx, now, mpc, idx,
                   elapsed, resp, fw, calls>>

\* the deferred wg.Done()
G_Done(i) ==
    /\ gpc[i] = "stored"
    /\ wg' = wg - 1
    /\ gpc' = [gpc EXCEPT ![i] = "done"]
    /\ UNCHANGED <<locations, apiURLOk, timeout, ctx, now, mpc, idx, results,
                   elapsed, resp, fw, calls>>

\* ------------------------------------------------------------ environment
\* a fetch is still to start or still running: only then is time observed
Pending(i) == gpc[i] \in {"none", "spawned", "inflight", "reading", "buffered"}

\* FetchWeather has sent its request and has not returned: it is in Do, or
\* in Decode with the body still to come or in the buffer
OnTheWire(i) == gpc[i] \in {"inflight", "reading", "buffered"}

\* one tick of time: the clock advances, every running fetch has taken one
\* tick more, the deadline is one tick nearer
Tick ==
    /\ \E i \in Idx : Pending(i)
    /\ \/ now <= MaxTime
       \/ ctx.remaining > 0
       \/ \E i \in Idx : OnTheWire(i) /\ elapsed[i] < MaxTime
    /\ now' = IF now <= MaxTime THEN now + 1 ELSE now
    /\ ctx' = [ctx EXCEPT !.remaining = IF @ > 0 THEN @ - 1 ELSE @]
    /\ elapsed' = [i \in Idx |-> IF OnTheWire(i) /\ elapsed[i] < MaxTime
                                 THEN elapsed[i] + 1 ELSE elapsed[i]]
    /\ UNCHANGED <<locations, apiURLOk, timeout, mpc, idx, wg, results, gpc,
                   resp, fw, calls>>

\* the caller cancels the context
Cancel ==
    /\ \E i \in Idx : Pending(i)
    /\ ~ctx.cancelled
    /\ ctx' = [ctx EXCEPT !.cancelled = TRUE]
    /\ UNCHANGED <<locations, apiURLOk, timeout, now, mpc, idx, wg, results,
                   gpc, elapsed, resp, fw, calls>>

\* FetchMultiple has not been called
IdleFM ==
    /\ locations = <<>>
    /\ apiURLOk = TRUE
    /\ timeout = 0
    /\ ctx = [cancelled |-> FALSE, remaining |-> -1]
    /\ now = 1
    /\ mpc = "idle"
    /\ idx = 1
    /\ wg = 0
    /\ results = <<>>
    /\ gpc = <<>>
    /\ elapsed = <<>>
    /\ resp = <<>>
    /\ fw = <<>>
    /\ calls = 0

\* ------------------------------------- fetcher.FetchWeatherData (fetcher.go)
MaxSeries == 2

\* a body of the hourly endpoint: JSON carrying hourly.temperature_2m (a
\* series, possibly empty), JSON without that field, bytes that are no JSON,
\* or no bytes at all
SeriesSet == UNION {[1..n -> {15, 20}] : n \in 0..MaxSeries}

HourlyBodies == {[kind |-> "series", series |-> ts] : ts \in SeriesSet}
                \cup {[kind |-> k, series |-> <<>>] : k \in {"nofield", "invalid", "empty"}}

HourlyErrorPage == [kind |-> "invalid", series |-> <<>>]

\* the body of a response of the hourly endpoint whose body has not been read
HourlyBodyPending == [kind |-> "pending", series |-> <<>>]

HourlyResponses == {Response(StatusOK, b) : b \in HourlyBodies}
                   \cup {Response(s, HourlyErrorPage) : s \in Statuses \ {StatusOK}}

\* json.NewDecoder(resp.Body).Decode(&respBody): a missing field leaves the
\* nil slice and is no error
DecodeHourly(body) ==
    CASE body.kind = "series"  -> [err |-> FALSE, series |-> body.series]
      [] body.kind = "nofield" -> [err |-> FALSE, series |-> <<>>]
      [] OTHER                 -> [err |-> TRUE, series |-> <<>>]

\* time.Duration.Seconds(): a tick is a second, float seconds are kept to
\* three decimals as a count of thousandths
Seconds(d) == d * 1000

\* models.WeatherResult; the fields a composite literal leaves out are zero
WeatherResult(city, temp, err, secs) ==
    [City |-> city, Temperature |-> temp, Continent |-> "", Error |-> err,
     FetchDurationSeconds |-> secs]

ZeroWeatherResult == WeatherResult("", 0, NilErr, 0)

\* a slip: the transport error is returned, the result carries none
GetFailedUnmarked(city, dur) ==
    [res |-> WeatherResult(city, 0, NilErr, Seconds(dur)),
     err |-> Err("connection", 0, "none")]

\* the return of FetchWeatherData when http.Get fails after dur
GetFailed(city, dur) ==
    [res |-> WeatherResult(city, 0, Err("HTTP error", 0, "connection"), Seconds(dur)),
     err |-> Err("connection", 0, "none")]


\* a slip: the status error path leaves the duration out
GetAnsweredUntimed(city, r, dur) ==
    IF r.status # StatusOK
    THEN [res |-> WeatherResult(city, 0, Err("API status", r.status, "none"), 0),
          err |-> Err("API status", r.status, "none")]
    ELSE LET d == DecodeHourly(r.body)
         IN  IF d.err
             THEN [res |-> WeatherResult(city, 0, Err("JSON error", 0, "json"), Seconds(dur)),
                   err |-> Err("json", 0, "none")]
             ELSE IF Len(d.series) = 0
             THEN [res |-> WeatherResult(city, 0, Err("no temperature data", 0, "none"),
                                         Seconds(dur)),
                   err |-> Err("no temperature data", 0, "none")]
             ELSE [res |-> WeatherResult(city, d.series[1], NilErr, Seconds(dur)),
                   err |-> NilErr]

\* a slip: every 2xx status passes the status check
GetAnsweredAny2xx(city, r, dur) ==
    IF r.status \div 100 # 2
    THEN [res |-> WeatherResult(city, 0, Err("API status", r.status, "none"), Seconds(dur)),
          err |-> Err("API status", r.status, "none")]
    ELSE LET d == DecodeHourly(r.body)
         IN  IF d.err
             THEN [res |-> WeatherResult(city, 0, Err("JSON error", 0, "json"), Seconds(dur)),
                   err |-> Err("json", 0, "none")]
             ELSE IF Len(d.series) = 0
             THEN [res |-> WeatherResult(city, 0, Err("no temperature data", 0, "none"),
                                         Seconds(dur)),
                   err |-> Err("no temperature data", 0, "none")]
             ELSE [res |-> WeatherResult(city, d.series[1], NilErr, Seconds(dur)),
                   err |-> NilErr]

\* the returns of FetchWeatherData when http.Get answers r after dur
GetAnswered(city, r, dur) ==
    IF r.status # StatusOK
    THEN [res |-> WeatherResult(city, 0, Err("API status", r.status, "none"), Seconds(dur)),
          err |-> Err("API status", r.status, "none")]
    ELSE LET d == DecodeHourly(r.body)
         IN  IF d.err
             THEN [res |-> WeatherResult(city, 0, Err("JSON error", 0, "json"), Seconds(dur)),
                   err |-> Err("json", 0, "none")]
             ELSE IF Len(d.series) = 0
             THEN [res |-> WeatherResult(city, 0, Err("no temperature data", 0, "none"),
                                         Seconds(dur)),
                   err |-> Err("no temperature data", 0, "none")]
             ELSE [res |-> WeatherResult(city, d.series[1], NilErr, Seconds(dur)),
                   err |-> NilErr]

NoResult == [res |-> ZeroWeatherResult, err |-> NilErr]

NoHourlyResp == Response(0, [kind |-> "none", series |-> <<>>])

InitFD ==
    /\ fd_city \in {Cities[k] : k \in 1..Len(Cities)}
    /\ fd_pc = "called"
    /\ fd_elapsed = 0
    /\ fd_resp = NoHourlyResp
    /\ fd_ret = NoResult

\* FetchWeatherData has not been called
IdleFD ==
    /\ fd_city = ZeroLocation
    /\ fd_pc = "idle"
    /\ fd_elapsed = 0
    /\ fd_resp = NoHourlyResp
    /\ fd_ret = NoResult

\* start := time.Now(); http.Get(url) sends the request and blocks
F_Get ==
    /\ fd_pc = "called"
    /\ fd_pc' = "inflight"
    /\ fd_elapsed' = 0
    /\ UNCHANGED <<fd_city, fd_resp, fd_ret>>

\* http.Get returns an error
F_GetFailed ==
    /\ fd_pc = "inflight"
    /\ fd_ret' = GetFailed(fd_city.Name, fd_elapsed)
    /\ fd_pc' = "returned"
    /\ UNCHANGED <<fd_city, fd_elapsed, fd_resp>>

\* http.Get returns the response r (a round trip takes time), and the status
\* check: a status other than 200 is returned as an error at once, its body
\* unread; with 200 the call goes on to Decode, which blocks until the body
\* is in, and nothing of the body is known yet
F_Response(r) ==
    /\ fd_pc = "inflight"
    /\ fd_elapsed >= 1
    /\ IF r.status # StatusOK
       THEN /\ fd_resp' = r
            /\ fd_ret' = GetAnswered(fd_city.Name, r, fd_elapsed)
            /\ fd_pc' = "returned"
       ELSE /\ fd_resp' = Response(r.status, HourlyBodyPending)
            /\ fd_pc' = "reading"
            /\ UNCHANGED fd_ret
    /\ UNCHANGED <<fd_city, fd_elapsed>>

\* the body of r is in: Decode returns, then the length check and the return
F_Decode(r) ==
    /\ fd_pc = "reading"
    /\ r.status = fd_resp.status
    /\ fd_resp' = r
    /\ fd_ret' = GetAnswered(fd_city.Name, r, fd_elapsed)
    /\ fd_pc' = "returned"
    /\ UNCHANGED <<fd_city, fd_elapsed>>

\* one tick of time while the request is pending or the body is read
F_Tick ==
    /\ fd_pc \in {"inflight", "reading"}
    /\ fd_elapsed < MaxTime
    /\ fd_elapsed' = fd_elapsed + 1
    /\ UNCHANGED <<fd_city, fd_pc, fd_resp, fd_ret>>

\* ------------------------------ comparer.CompareWeatherData (comparer.go)
\* A float64 running minimum or maximum is a sequence: <<>> is math.Inf (no
\* item seen yet), <<x>> the value x.
Inf == <<>>

\* if x < min { min = x }
MinWith(m, x) == IF m = Inf \/ x < m[1] THEN <<x>> ELSE m

\* if x > max { max = x }
MaxWith(m, x) == IF m = Inf \/ x > m[1] THEN <<x>> ELSE m

\* a quotient of non-negative numbers printed with a fixed number of
\* decimals: a is the dividend in units of the last printed decimal; the
\* quotients that occur are never half-way between two printed values
Quotient(a, n) == (2 * a + n) \div (2 * n)

\* %.1f of a temperature: tenths of a degree
Tenths(x) == x * 10

\* %.2f of tempSum/float64(tempCount): hundredths of a degree
Hundredths(sum, count) == Quotient(sum * 100, count)

\* time.Duration.Truncate(m): round d towards zero to a multiple of m;
\* a time.Duration is counted in milliseconds here
Truncate(d, m) == d - (d % m)

\* time.Since(s) as a time.Duration, s having been taken ticks ago
Since(ticks) == ticks * 1000

\* a slip: each item is put in front of the items its group already has
GroupItemsNewestFirst(data, key) ==
    LET own == SelectSeq(data, LAMBDA r : r.Continent = key)
    IN  [i \in 1..Len(own) |-> own[Len(own) + 1 - i]]

\* groups[r.Continent]: the items of a continent, in the order of the input
GroupItems(data, key) == SelectSeq(data, LAMBDA r : r.Continent = key)

\* the keys of the groups map
GroupKeys(data) == {data[i].Continent : i \in 1..Len(data)}

\* the accumulators before the loop over the items of a group
ZeroStats ==
    [tempSum |-> 0, tempCount |-> 0, minTemp |-> Inf, maxTemp |-> Inf,
     fetchSum |-> 0, fetchCount |-> 0, minFetch |-> Inf, maxFetch |-> Inf]

\* a slip: the temperature of every item is accumulated, failed or not
AccumulateAll(acc, it) ==
    [tempSum |-> acc.tempSum + it.Temperature,
     tempCount |-> acc.tempCount + 1,
     minTemp |-> MinWith(acc.minTemp, it.Temperature),
     maxTemp |-> MaxWith(acc.maxTemp, it.Temperature),
     fetchSum |-> acc.fetchSum + it.FetchDurationSeconds,
     fetchCount |-> acc.fetchCount + 1,
     minFetch |-> MinWith(acc.minFetch, it.FetchDurationSeconds),
     maxFetch |-> MaxWith(acc.maxFetch, it.FetchDurationSeconds)]

\* a slip: the fetch time of a failed item is left out of the statistics
AccumulateValidOnly(acc, it) ==
    IF it.Error = NilErr
    THEN AccumulateAll(acc, it)
    ELSE acc

\* one pass of the loop body over the item it
Accumulate(acc, it) ==
    LET valid == it.Error = NilErr
    IN  [tempSum |-> IF valid THEN acc.tempSum + it.Temperature ELSE acc.tempSum,
         tempCount |-> IF valid THEN acc.tempCount + 1 ELSE acc.tempCount,
         minTemp |-> IF valid THEN MinWith(acc.minTemp, it.Temperature) ELSE acc.minTemp,
         maxTemp |-> IF valid THEN MaxWith(acc.maxTemp, it.Temperature) ELSE acc.maxTemp,
         fetchSum |-> acc.fetchSum + it.FetchDurationSeconds,
         fetchCount |-> acc.fetchCount + 1,
         minFetch |-> MinWith(acc.minFetch, it.FetchDurationSeconds),
         maxFetch |-> MaxWith(acc.maxFetch, it.FetchDurationSeconds)]

\* the loop over the items of a group
RECURSIVE GroupStats(_, _)
GroupStats(items, acc) ==
    IF items = <<>>
    THEN acc
    ELSE GroupStats(Tail(items), Accumulate(acc, Head(items)))

\* the line of one item: "  City: ERROR: err (fetch d s)" or
\* "  City: t °C (fetch d s)"
CityLine(it) ==
    IF it.Error # NilErr
    THEN [City |-> it.City, kind |-> "ERROR", Error |-> it.Error, temp |-> 0,
          fetch |-> it.FetchDurationSeconds]
    ELSE [City |-> it.City, kind |-> "temp", Error |-> NilErr,
          temp |-> Tenths(it.Temperature), fetch |-> it.FetchDurationSeconds]

\* a slip: the statistics line is written whenever the group has an item
TempLineForAnyItem(st) ==
    IF st.fetchCount > 0
    THEN [kind |-> "stats", count |-> st.tempCount,
          avg |-> IF st.tempCount > 0 THEN Hundredths(st.tempSum, st.tempCount) ELSE 0,
          min |-> IF st.minTemp # Inf THEN Tenths(st.minTemp[1]) ELSE 0,
          max |-> IF st.maxTemp # Inf THEN Tenths(st.maxTemp[1]) ELSE 0]
    ELSE [kind |-> "No valid temperature data for this continent.", count |-> 0,
          avg |-> 0, min |-> 0, max |-> 0]

\* the "Cities with valid temperature" line, or "No valid temperature data
\* for this continent."
TempLine(st) ==
    IF st.tempCount > 0
    THEN [kind |-> "stats", count |-> st.tempCount,
          avg |-> Hundredths(st.tempSum, st.tempCount),
          min |-> Tenths(st.minTemp[1]), max |-> Tenths(st.maxTemp[1])]
    ELSE [kind |-> "No valid temperature data for this continent.", count |-> 0,
          avg |-> 0, min |-> 0, max |-> 0]

\* the "Fetch times (s)" line, if any: a sequence of no or one line
FetchLine(st) ==
    IF st.fetchCount > 0
    THEN <<[avg |-> Quotient(st.fetchSum, st.fetchCount),
            min |-> st.minFetch[1], max |-> st.maxFetch[1]]>>
    ELSE <<>>

\* a slip: the line is written without the ok of the lookup, a missing key
\* prints the zero duration
WallLineAlways(key, durations) ==
    IF key \in DOMAIN durations
    THEN <<Truncate(durations[key], 1)>>
    ELSE <<0>>

\* the "Continent total wall time" line, if any: a sequence of no or one line
WallLine(key, durations) ==
    IF key \in DOMAIN durations
    THEN <<Truncate(durations[key], 1)>>
    ELSE <<>>

\* a slip: the failed items get no line
SectionOmittingFailures(key, items, durations) ==
    LET st == GroupStats(items, ZeroStats)
        valid == SelectSeq(items, LAMBDA it : it.Error = NilErr)
    IN  [Continent |-> key,
         wall |-> WallLine(key, durations),
         temps |-> TempLine(st),
         fetch |-> FetchLine(st),
         lines |-> [i \in 1..Len(valid) |-> CityLine(valid[i])]]

\* the section of one group
Section(key, items, durations) ==
    LET st == GroupStats(items, ZeroStats)
    IN  [Continent |-> key,
         wall |-> WallLine(key, durations),
         temps |-> TempLine(st),
         fetch |-> FetchLine(st),
         lines |-> [i \in 1..Len(items) |-> CityLine(items[i])]]

NoReport == [text |-> "", sections |-> <<>>]

\* a slip: the keys of the durations map get a section too
CompareByDurationKeys(data, durations, order) ==
    IF Len(data) = 0
    THEN [text |-> "No weather data to compare.", sections |-> <<>>]
    ELSE LET more == DOMAIN durations \ GroupKeys(data)
             extra == CHOOSE o \in [1..Cardinality(more) -> more] :
                         \A k \in more : \E i \in DOMAIN o : o[i] = k
             all == order \o extra
         IN  [text |-> "Weather comparison summary",
              sections |-> [k \in 1..Len(all) |->
                              Section(all[k], GroupItems(data, all[k]), durations)]]

\* a slip: no check for the empty list, the header is always written
CompareWithoutEmptyCheck(data, durations, order) ==
    [text |-> "Weather comparison summary",
     sections |-> [k \in 1..Len(order) |->
                     Section(order[k], GroupItems(data, order[k]), durations)]]

\* CompareWeatherData(weatherData, contDurations); order is the order in
\* which range visits the keys of the groups map
CompareWeatherData(data, durations, order) ==
    IF Len(data) = 0
    THEN [text |-> "No weather data to compare.", sections |-> <<>>]
    ELSE [text |-> "Weather comparison summary",
          sections |-> [k \in 1..Len(order) |->
                          Section(order[k], GroupItems(data, order[k]),
                                  durations)]]

\* the orders in which range may visit the keys of a map
KeyOrders(keys) ==
    {o \in [1..Cardinality(keys) -> keys] : \A k \in keys : \E i \in DOMAIN o : o[i] = k}

\* -------------------------------------- the grouped pipeline (main, main.go)
\* the names a configuration gives its continents, in the order of the file
ContinentNames == <<"Europe", "Asia">>

\* the city lists of a configuration whose continents have the given numbers
\* of cities: the cities are handed out in the order of Cities
RECURSIVE CitiesFrom(_, _)
CitiesFrom(counts, first) ==
    IF counts = <<>>
    THEN <<>>
    ELSE <<SubSeq(Cities, first, first + Head(counts) - 1)>>
         \o CitiesFrom(Tail(counts), first + Head(counts))

RECURSIVE SeqSum(_)
SeqSum(s) == IF s = <<>> THEN 0 ELSE Head(s) + SeqSum(Tail(s))

\* cfg.Continents as loadCities returns it: continents with at most MaxLocs
\* cities altogether; a continent may have no city
Configs ==
    {[c \in 1..Len(counts) |->
        [Name |-> ContinentNames[c], Cities |-> CitiesFrom(counts, 1)[c]]] :
     counts \in {cs \in UNION {[1..n -> 0..MaxLocs] : n \in 0..Len(ContinentNames)} : SeqSum(cs) <= MaxLocs}}

\* the answer of the hourly endpoint the pipeline is run against, when it
\* answers
PipelineResponses ==
    {Response(StatusOK, [kind |-> "series", series |-> <<20>>])}

\* total: the number of configured cities
Total == SeqSum([c \in 1..Len(cfg) |-> Len(cfg[c].Cities)])

\* the fetch goroutines, one per continent c and city j of it
Fetchers == {<<c, j>> : c \in 1..Len(ContinentNames), j \in 1..MaxLocs}

\* the fetch goroutines main launches
Configured == {k \in Fetchers : k[1] <= Len(cfg) /\ k[2] <= Len(cfg[k[1]].Cities)}

Conts == 1..Len(cfg)

\* cont.Name as a fetch goroutine of continent c reads it: the loop variable
\* of the language version the module is built for
ContName(c) == IF sharedCont THEN cfg[cont].Name ELSE cfg[c].Name

\* time.Since of a running clock after one more tick
Later(e) == IF e < MaxTime THEN e + 1 ELSE e

\* main after loadCities: the channels are made, nothing is launched
InitPL ==
    /\ cfg \in Configs
    /\ sharedCont \in BOOLEAN
    /\ ppc = "range"
    /\ ci = 1
    /\ cj = 1
    /\ cont = 0
    /\ contWg = [c \in Conts |-> 0]
    /\ contElapsed = [c \in Conts |-> 0]
    /\ observer = [c \in Conts |-> "none"]
    /\ fpc = [k \in Configured |-> "none"]
    /\ fElapsed = [k \in Configured |-> 0]
    /\ fRes = [k \in Configured |-> ZeroWeatherResult]
    /\ resultCh = <<>>
    /\ contDoneCh = <<>>
    /\ closed = FALSE
    /\ di = 0
    /\ weatherData = <<>>
    /\ contDurations = <<>>
    /\ comparisonSummary = NoReport

\* main is not running
IdlePL ==
    /\ cfg = <<>>
    /\ sharedCont = FALSE
    /\ ppc = "idle"
    /\ ci = 1
    /\ cj = 1
    /\ cont = 0
    /\ contWg = <<>>
    /\ contElapsed = <<>>
    /\ observer = <<>>
    /\ fpc = <<>>
    /\ fElapsed = <<>>
    /\ fRes = <<>>
    /\ resultCh = <<>>
    /\ contDoneCh = <<>>
    /\ closed = FALSE
    /\ di = 0
    /\ weatherData = <<>>
    /\ contDurations = <<>>
    /\ comparisonSummary = NoReport

\* for _, cont := range cfg.Continents: the next continent is assigned to
\* cont, var wg and start := time.Now(); or the loop ends
P_Range ==
    /\ ppc = "range"
    /\ IF ci <= Len(cfg)
       THEN /\ cont' = ci
            /\ observer' = [observer EXCEPT ![ci] = "started"]
            /\ cj' = 1
            /\ ppc' = "cities"
       ELSE /\ ppc' = "collect"
            /\ UNCHANGED <<cont, observer, cj>>
    /\ UNCHANGED <<cfg, sharedCont, ci, contWg, contElapsed, fpc, fElapsed, fRes,
                   resultCh, contDoneCh, closed, di, weatherData, contDurations,
                   comparisonSummary>>

\* for _, city := range cont.Cities: wg.Add(1); go func(ct models.City)
P_GoFetch ==
    /\ ppc = "cities"
    /\ cj <= Len(cfg[ci].Cities)
    /\ contWg' = [contWg EXCEPT ![ci] = @ + 1]
    /\ fpc' = [fpc EXCEPT ![<<ci, cj>>] = "spawned"]
    /\ cj' = cj + 1
    /\ UNCHANGED <<cfg, sharedCont, ppc, ci, cont, contElapsed, observer, fElapsed,
                   fRes, resultCh, contDoneCh, closed, di, weatherData,
                   contDurations, comparisonSummary>>

\* go func(name, w, s)(cont.Name, &wg, start): the observer of the continent
\* is launched, and the iteration ends
P_GoObserver ==
    /\ ppc = "cities"
    /\ cj > Len(cfg[ci].Cities)
    /\ observer' = [observer EXCEPT ![ci] = "waiting"]
    /\ ci' = ci + 1
    /\ ppc' = "range"
    /\ UNCHANGED <<cfg, sharedCont, cj, cont, contWg, contElapsed, fpc, fElapsed,
                   fRes, resultCh, contDoneCh, closed, di, weatherData,
                   contDurations, comparisonSummary>>

\* a fetch goroutine calls fetcher.FetchWeatherData: start := time.Now();
\* http.Get(url) sends the request and blocks
PF_Get(k) ==
    /\ fpc[k] = "spawned"
    /\ fpc' = [fpc EXCEPT ![k] = "inflight"]
    /\ fElapsed' = [fElapsed EXCEPT ![k] = 0]
    /\ UNCHANGED <<cfg, sharedCont, ppc, ci, cj, cont, contWg, contElapsed, observer,
                   fRes, resultCh, contDoneCh, closed, di, weatherData,
                   contDurations, comparisonSummary>>

\* FetchWeatherData returns res to the goroutine (start goes out of scope)
FetchReturns(k, ret) ==
    /\ fRes' = [fRes EXCEPT ![k] = ret.res]
    /\ fpc' = [fpc EXCEPT ![k] = "returned"]
    /\ fElapsed' = [fElapsed EXCEPT ![k] = 0]
    /\ UNCHANGED <<cfg, sharedCont, ppc, ci, cj, cont, contWg, contElapsed, observer,
                   resultCh, contDoneCh, closed, di, weatherData, contDurations,
                   comparisonSummary>>

\* http.Get returns an error
PF_GetFailed(k) ==
    /\ fpc[k] = "inflight"
    /\ FetchReturns(k, GetFailed(cfg[k[1]].Cities[k[2]].Name, fElapsed[k]))

\* http.Get returns the response r (a round trip takes time), and the status
\* check: a status other than 200 is returned as an error at once; with 200
\* the call goes on to Decode, which blocks until the body is in
PF_Response(k, r) ==
    /\ fpc[k] = "inflight"
    /\ fElapsed[k] >= 1
    /\ IF r.status # StatusOK
       THEN FetchReturns(k, GetAnswered(cfg[k[1]].Cities[k[2]].Name, r, fElapsed[k]))
       ELSE /\ fpc' = [fpc EXCEPT ![k] = "reading"]
            /\ UNCHANGED <<cfg, sharedCont, ppc, ci, cj, cont, contWg, contElapsed,
                           observer, fElapsed, fRes, resultCh, contDoneCh, closed, di,
                           weatherData, contDurations, comparisonSummary>>

\* the body of r is in: Decode returns, then the length check and the return
PF_Decode(k, r) ==
    /\ fpc[k] = "reading"
    /\ r.status = StatusOK
    /\ FetchReturns(k, GetAnswered(cfg[k[1]].Cities[k[2]].Name, r, fElapsed[k]))

\* res.Continent = cont.Name: the goroutine reads the loop variable as it is
\* now
PF_Tag(k) ==
    /\ fpc[k] = "returned"
    /\ fRes' = [fRes EXCEPT ![k].Continent = ContName(k[1])]
    /\ fpc' = [fpc EXCEPT ![k] = "tagged"]
    /\ UNCHANGED <<cfg, sharedCont, ppc, ci, cj, cont, contWg, contElapsed, observer,
                   fElapsed, resultCh, contDoneCh, closed, di, weatherData,
                   contDurations, comparisonSummary>>

\* resultCh <- res
PF_Send(k) ==
    /\ fpc[k] = "tagged"
    /\ ~closed
    /\ Len(resultCh) < Total
    /\ resultCh' = Append(resultCh, fRes[k])
    /\ fpc' = [fpc EXCEPT ![k] = "sent"]
    /\ UNCHANGED <<cfg, sharedCont, ppc, ci, cj, cont, contWg, contElapsed, observer,
                   fElapsed, fRes, contDoneCh, closed, di, weatherData, contDurations,
                   comparisonSummary>>

\* a slip: the goroutine ends without telling the WaitGroup
PF_DoneWithoutSignal(k) ==
    /\ fpc[k] = "sent"
    /\ fpc' = [fpc EXCEPT ![k] = "done"]
    /\ UNCHANGED <<cfg, sharedCont, ppc, ci, cj, cont, contWg, contElapsed, observer,
                   fElapsed, fRes, resultCh, contDoneCh, closed, di, weatherData,
                   contDurations, comparisonSummary>>

\* the deferred wg.Done()
PF_Done(k) ==
    /\ fpc[k] = "sent"
    /\ fpc' = [fpc EXCEPT ![k] = "done"]
    /\ contWg' = [contWg EXCEPT ![k[1]] = @ - 1]
    /\ UNCHANGED <<cfg, sharedCont, ppc, ci, cj, cont, contElapsed, observer,
                   fElapsed, fRes, resultCh, contDoneCh, closed, di, weatherData,
                   contDurations, comparisonSummary>>

\* a slip: one WaitGroup for all continents, every observer waits for it
P_ObserveAfterAll(c) ==
    /\ observer[c] = "waiting"
    /\ \A c2 \in Conts : contWg[c2] = 0
    /\ ~closed
    /\ Len(contDoneCh) < Len(cfg)
    /\ contDoneCh' = Append(contDoneCh,
                            [Name |-> cfg[c].Name, Duration |-> Since(contElapsed[c])])
    /\ observer' = [observer EXCEPT ![c] = "sent"]
    /\ contElapsed' = [contElapsed EXCEPT ![c] = 0]
    /\ UNCHANGED <<cfg, sharedCont, ppc, ci, cj, cont, contWg, fpc, fElapsed, fRes,
                   resultCh, closed, di, weatherData, contDurations,
                   comparisonSummary>>

\* the observer of continent c: w.Wait() returns;
\* contDoneCh <- {Name: name, Duration: time.Since(s)}
P_Observe(c) ==
    /\ observer[c] = "waiting"
    /\ contWg[c] = 0
    /\ ~closed
    /\ Len(contDoneCh) < Len(cfg)
    /\ contDoneCh' = Append(contDoneCh,
                            [Name |-> cfg[c].Name, Duration |-> Since(contElapsed[c])])
    /\ observer' = [observer EXCEPT ![c] = "sent"]
    /\ contElapsed' = [contElapsed EXCEPT ![c] = 0]
    /\ UNCHANGED <<cfg, sharedCont, ppc, ci, cj, cont, contWg, fpc, fElapsed, fRes,
                   resultCh, closed, di, weatherData, contDurations,
                   comparisonSummary>>

\* a slip: the received result stays in the channel
P_ReceiveKeeping ==
    /\ ppc = "collect"
    /\ Len(weatherData) < Total
    /\ resultCh # <<>>
    /\ weatherData' = Append(weatherData, Head(resultCh))
    /\ UNCHANGED <<cfg, sharedCont, ppc, ci, cj, cont, contWg, contElapsed, observer,
                   fpc, fElapsed, fRes, resultCh, contDoneCh, closed, di,
                   contDurations, comparisonSummary>>

\* r := <-resultCh; weatherData = append(weatherData, r)
P_Receive ==
    /\ ppc = "collect"
    /\ Len(weatherData) < Total
    /\ resultCh # <<>>
    /\ weatherData' = Append(weatherData, Head(resultCh))
    /\ resultCh' = Tail(resultCh)
    /\ UNCHANGED <<cfg, sharedCont, ppc, ci, cj, cont, contWg, contElapsed, observer,
                   fpc, fElapsed, fRes, contDoneCh, closed, di, contDurations,
                   comparisonSummary>>

\* d := <-contDoneCh; contDurations[d.Name] = d.Duration
P_ReceiveDone ==
    /\ ppc = "collect"
    /\ Len(weatherData) = Total
    /\ di < Len(cfg)
    /\ contDoneCh # <<>>
    /\ LET d == Head(contDoneCh)
       IN  contDurations' = [n \in DOMAIN contDurations \cup {d.Name} |->
                               IF n = d.Name THEN d.Duration ELSE contDurations[n]]
    /\ contDoneCh' = Tail(contDoneCh)
    /\ di' = di + 1
    /\ UNCHANGED <<cfg, sharedCont, ppc, ci, cj, cont, contWg, contElapsed, observer,
                   fpc, fElapsed, fRes, resultCh, closed, weatherData,
                   comparisonSummary>>

\* a slip: the channels are closed as soon as the results are in
P_CloseAfterResults ==
    /\ ppc = "collect"
    /\ Len(weatherData) = Total
    /\ closed' = TRUE
    /\ ppc' = "compare"
    /\ UNCHANGED <<cfg, sharedCont, ci, cj, cont, contWg, contElapsed, observer, fpc,
                   fElapsed, fRes, resultCh, contDoneCh, di, weatherData,
                   contDurations, comparisonSummary>>

\* close(resultCh); close(contDoneCh)
P_Close ==
    /\ ppc = "collect"
    /\ Len(weatherData) = Total
    /\ di = Len(cfg)
    /\ closed' = TRUE
    /\ ppc' = "compare"
    /\ UNCHANGED <<cfg, sharedCont, ci, cj, cont, contWg, contElapsed, observer, fpc,
                   fElapsed, fRes, resultCh, contDoneCh, di, weatherData,
                   contDurations, comparisonSummary>>

\* comparisonSummary := comparer.CompareWeatherData(weatherData, contDurations)
P_Compare(order) ==
    /\ ppc = "compare"
    /\ comparisonSummary' = CompareWeatherData(weatherData, contDurations, order)
    /\ ppc' = "done"
    /\ UNCHANGED <<cfg, sharedCont, ci, cj, cont, contWg, contElapsed, observer, fpc,
                   fElapsed, fRes, resultCh, contDoneCh, closed, di, weatherData,
                   contDurations>>

\* one tick of time: every running time.Since grows.  A tick is a second.
\* Time passes wherever main and the goroutines are, also between two
\* statements of a goroutine; a clock stops counting at MaxTime
P_Tick ==
    /\ \/ \E k \in Configured : fpc[k] \in {"inflight", "reading"} /\ fElapsed[k] < MaxTime
       \/ \E c \in Conts : observer[c] \in {"started", "waiting"} /\ contElapsed[c] < MaxTime
    /\ fElapsed' = [k \in Configured |->
                      IF fpc[k] \in {"inflight", "reading"}
                      THEN Later(fElapsed[k]) ELSE fElapsed[k]]
    /\ contElapsed' = [c \in Conts |->
                         IF observer[c] \in {"started", "waiting"}
                         THEN Later(contElapsed[c]) ELSE contElapsed[c]]
    /\ UNCHANGED <<cfg, sharedCont, ppc, ci, cj, cont, contWg, observer, fpc, fRes,
                   resultCh, contDoneCh, closed, di, weatherData, contDurations,
                   comparisonSummary>>

\* the results a caller may pass to CompareWeatherData: at most MaxLocs + 1
\* items, valid ones and failed ones (a failed one with a Temperature that
\* is not zero), of two continents
CompareItems(i) ==
    {[City |-> Cities[i].Name, Temperature |-> t.temp, Continent |-> c,
      Error |-> t.err, FetchDurationSeconds |-> Seconds(d)] :
        t \in {[temp |-> 10, err |-> NilErr], [temp |-> 20, err |-> NilErr],
                [temp |-> 99, err |-> Err("API status", 500, "none")]},
        c \in {ContinentNames[n] : n \in 1..Len(ContinentNames)},
        d \in {1, 2}}

\* the lists of n such items
RECURSIVE CompareLists(_)
CompareLists(n) ==
    IF n = 0
    THEN {<<>>}
    ELSE {Append(w, x) : w \in CompareLists(n - 1), x \in CompareItems(n)}

CompareInputs == UNION {CompareLists(n) : n \in 0..(MaxLocs + 1)}

\* the duration maps a caller may pass: any of the continents and one more
\* name may have an entry
DurationMaps ==
    {[n \in S |-> Since(1)] :
        S \in SUBSET ({ContinentNames[n] : n \in 1..Len(ContinentNames)} \cup {"Africa"})}

\* a caller is about to call CompareWeatherData
InitCompareCall ==
    /\ cfg = <<>>
    /\ sharedCont = FALSE
    /\ ppc = "compare"
    /\ ci = 1
    /\ cj = 1
    /\ cont = 0
    /\ contWg = <<>>
    /\ contElapsed = <<>>
    /\ observer = <<>>
    /\ fpc = <<>>
    /\ fElapsed = <<>>
    /\ fRes = <<>>
    /\ resultCh = <<>>
    /\ contDoneCh = <<>>
    /\ closed = FALSE
    /\ di = 0
    /\ weatherData \in CompareInputs
    /\ contDurations \in DurationMaps
    /\ comparisonSummary = NoReport

\* ------------------------------------------------------------------- New
\* the most options one call of New is given
MaxOpts == 2

\* the defaults New starts from: the API URL, and 10 * time.Second
DefaultAPIURL == "https://api.open-meteo.com"

DefaultTimeout == 10

\* the http.Client values there are: the one New allocates, &http.Client{},
\* and two of the caller's; NilClient is the nil pointer
FreshClient == "fresh"

NilClient == "nil"

CallerClients == {"a", "b"}

\* the Timeout fields before New is called: zero in a fresh http.Client
\* and in the caller's b, thirty seconds in the caller's a
InitialTimeouts == [h \in CallerClients \cup {FreshClient} |->
                       IF h = "a" THEN 30 ELSE 0]

Client(apiURL, httpClient, timeout_) ==
    [apiURL |-> apiURL, httpClient |-> httpClient, timeout |-> timeout_]

\* an Option is a function that changes one field of the Client: the field
\* it sets, and the value (in d, hc or url, by the field)
WithTimeout(d) == [sets |-> "timeout", d |-> d, hc |-> NilClient, url |-> ""]

WithHTTPClient(hc) == [sets |-> "httpClient", d |-> 0, hc |-> hc, url |-> ""]

WithAPIURL(url) == [sets |-> "apiURL", d |-> 0, hc |-> NilClient, url |-> url]

Options ==
    {WithTimeout(d) : d \in {0, 5, 7}}
        \cup {WithHTTPClient(hc) : hc \in CallerClients \cup {NilClient}}
        \cup {WithAPIURL(url) : url \in {"https://custom.api.com", "http://localhost"}}

OptionLists == UNION {[1..n -> Options] : n \in 0..MaxOpts}

\* opt(c)
Apply(opt, cl) ==
    CASE opt.sets = "timeout"    -> [cl EXCEPT !.timeout = opt.d]
      [] opt.sets = "httpClient" -> [cl EXCEPT !.httpClient = opt.hc]
      [] opt.sets = "apiURL"     -> [cl EXCEPT !.apiURL = opt.url]

\* for _, opt := range opts { opt(c) }
RECURSIVE ApplyAll(_, _)
ApplyAll(os, cl) ==
    IF os = <<>> THEN cl ELSE ApplyAll(Tail(os), Apply(Head(os), cl))

\* a slip: the timeout is copied into the HTTP client before the options run
NewSyncingFirst(os) ==
    LET cl == ApplyAll(os, Client(DefaultAPIURL, FreshClient, DefaultTimeout))
    IN  [panicked |-> FALSE, c |-> cl,
         heap |-> [InitialTimeouts EXCEPT ![FreshClient] = DefaultTimeout]]

\* New: the defaults, the options in order, then c.httpClient.Timeout =
\* c.timeout, which panics on a nil httpClient and otherwise writes into the
\* http.Client the Client holds, the caller's own one included
New(os) ==
    LET cl == ApplyAll(os, Client(DefaultAPIURL, FreshClient, DefaultTimeout))
    IN  IF cl.httpClient = NilClient
        THEN [panicked |-> TRUE, c |-> cl, heap |-> InitialTimeouts]
        ELSE [panicked |-> FALSE, c |-> cl,
              heap |-> [InitialTimeouts EXCEPT ![cl.httpClient] = cl.timeout]]

NoClient == Client("", NilClient, 0)

InitNew ==
    /\ opts \in OptionLists
    /\ npc = "called"
    /\ newClient = NoClient
    /\ httpClients = InitialTimeouts

\* New has not been called
IdleNew ==
    /\ opts = <<>>
    /\ npc = "idle"
    /\ newClient = NoClient
    /\ httpClients = InitialTimeouts

\* the call of New runs to its return or to its panic
N_New ==
    /\ npc = "called"
    /\ LET ret == New(opts)
       IN  /\ npc' = IF ret.panicked THEN "panicked" ELSE "returned"
           /\ newClient' = ret.c
           /\ httpClients' = ret.heap
    /\ UNCHANGED opts

\* -------------------------------------- the cmd tool (main, displayResults)
\* the most cities a continent of the configuration file has
MaxCities == 2

\* the display names of the configuration files
CityNames == {"Berlin", "Tokyo", "Paris"}

\* the city of that name as continent c lists it: the same name under another
\* continent is another place
CityUnder(c, name) == Location(name, 10 * c, 10 * c + 1)

\* the configuration files: the continents of ContinentNames, each with a
\* list of cities
CityLists(c) == UNION {[1..n -> {CityUnder(c, name) : name \in CityNames}] : n \in 0..MaxCities}

CmdConfigs ==
    {[c \in 1..Len(ContinentNames) |-> [Name |-> ContinentNames[c], Cities |-> lists[c]]] :
        lists \in {l \in [1..Len(ContinentNames) ->
                              UNION {CityLists(c) : c \in 1..Len(ContinentNames)}] :
                      \A c \in 1..Len(ContinentNames) : l[c] \in CityLists(c)}}

\* allLocations after the two loops over the continents from index c on
RECURSIVE AllLocationsFrom(_, _)
AllLocationsFrom(config, c) ==
    IF c > Len(config) THEN <<>>
    ELSE config[c].Cities \o AllLocationsFrom(config, c + 1)

\* continentMap[city.Name] = cont.Name for every city of a list, in order
RECURSIVE PutCities(_, _, _)
PutCities(map, cities, name) ==
    IF cities = <<>> THEN map
    ELSE PutCities([n \in DOMAIN map \cup {Head(cities).Name} |->
                       IF n = Head(cities).Name THEN name ELSE map[n]],
                   Tail(cities), name)

\* a slip: a name that has an entry keeps it
RECURSIVE PutCitiesOnce(_, _, _)
PutCitiesOnce(map, cities, name) ==
    IF cities = <<>> THEN map
    ELSE PutCitiesOnce([n \in DOMAIN map \cup {Head(cities).Name} |->
                           IF n \in DOMAIN map THEN map[n] ELSE name],
                       Tail(cities), name)

\* a slip: the first continent that lists a name keeps it
RECURSIVE ContinentMapFirstWins(_, _, _)
ContinentMapFirstWins(config, c, map) ==
    IF c > Len(config) THEN map
    ELSE ContinentMapFirstWins(config, c + 1,
                               PutCitiesOnce(map, config[c].Cities, config[c].Name))

\* continentMap after the two loops over the continents from index c on
RECURSIVE ContinentMapFrom(_, _, _)
ContinentMapFrom(config, c, map) ==
    IF c > Len(config) THEN map
    ELSE ContinentMapFrom(config, c + 1,
                          PutCities(map, config[c].Cities, config[c].Name))

\* continentMap[r.Location.Name]: the zero value "" for a missing key
ContinentOf(map, name) == IF name \in DOMAIN map THEN map[name] ELSE ""

\* a slip: a failed result is put in no group
GroupByContinentValidOnly(data, map) ==
    LET valid == SelectSeq(data, LAMBDA r : r.Error = NilErr)
        keys == {ContinentOf(map, valid[i].Location.Name) : i \in 1..Len(valid)}
    IN  [k \in keys |-> SelectSeq(valid, LAMBDA r : ContinentOf(map, r.Location.Name) = k)]

\* groups after the loop over results: groups[continent] =
\* append(groups[continent], r)
GroupByContinent(data, map) ==
    LET keys == {ContinentOf(map, data[i].Location.Name) : i \in 1..Len(data)}
    IN  [k \in keys |-> SelectSeq(data, LAMBDA r : ContinentOf(map, r.Location.Name) = k)]

\* tempSum and validCount after the loop over the results of a group
RECURSIVE ValidTemps(_)
ValidTemps(data) ==
    IF data = <<>> THEN [tempSum |-> 0, validCount |-> 0]
    ELSE LET rest == ValidTemps(Tail(data))
         IN  IF Head(data).Error # NilErr THEN rest
             ELSE [tempSum |-> rest.tempSum + Head(data).Temperature,
                   validCount |-> rest.validCount + 1]

\* what displayResults prints for one group: the continent, a line per
\* result, and the average when a result is valid (%.1f of
\* tempSum/float64(validCount), the temperatures being tenths already)
ShownSection(key, data) ==
    [Continent |-> key,
     lines |-> [i \in 1..Len(data) |->
                  [Name |-> data[i].Location.Name,
                   kind |-> IF data[i].Error # NilErr THEN "ERROR" ELSE "temp"]],
     average |-> LET st == ValidTemps(data)
                 IN  IF st.validCount > 0
                     THEN <<Quotient(st.tempSum, st.validCount), st.validCount>>
                     ELSE <<>>]

\* what FetchMultiple returns for a location: its data, or the location with
\* the error
FetchOutcome(location, ok) ==
    IF ok
    THEN SlotValue(location, Success(location, RemoteTemp(location), 1, 2))
    ELSE SlotValue(location, FailWith("http request", 0, "connection"))

InitCmd ==
    /\ cmdCfg \in CmdConfigs
    /\ cpc = "loaded"
    /\ allLocations = <<>>
    /\ continentMap = <<>>
    /\ fetched = <<>>
    /\ groups = <<>>
    /\ shown = <<>>

\* main of the cmd tool is not running
IdleCmd ==
    /\ cmdCfg = <<>>
    /\ cpc = "idle"
    /\ allLocations = <<>>
    /\ continentMap = <<>>
    /\ fetched = <<>>
    /\ groups = <<>>
    /\ shown = <<>>

\* the loops over cfg.Continents and cont.Cities
C_Prepare ==
    /\ cpc = "loaded"
    /\ allLocations' = AllLocationsFrom(cmdCfg, 1)
    /\ continentMap' = ContinentMapFrom(cmdCfg, 1, <<>>)
    /\ cpc' = "prepared"
    /\ UNCHANGED <<cmdCfg, fetched, groups, shown>>

\* results := client.FetchMultiple(ctx, allLocations); ok are the indices of
\* the fetches that succeed
C_Fetch(ok) ==
    /\ cpc = "prepared"
    /\ fetched' = [i \in 1..Len(allLocations) |-> FetchOutcome(allLocations[i], i \in ok)]
    /\ cpc' = "fetched"
    /\ UNCHANGED <<cmdCfg, allLocations, continentMap, groups, shown>>

\* displayResults(results, continentMap); order is the order in which range
\* visits the keys of groups
C_Display(order) ==
    /\ cpc = "fetched"
    /\ groups' = GroupByContinent(fetched, continentMap)
    /\ shown' = [k \in 1..Len(order) |-> ShownSection(order[k], groups'[order[k]])]
    /\ cpc' = "displayed"
    /\ UNCHANGED <<cmdCfg, allLocations, continentMap, fetched>>

\* ---------------------------------------------------------- specifications
\* one call of Client.FetchMultiple
Init == InitFM /\ IdleFD /\ IdlePL /\ IdleNew /\ IdleCmd

Next ==
    \/ M_Launch /\ UNCHANGED <<fdVars, plVars, nwVars, cmVars>>
    \/ M_LoopEnd /\ UNCHANGED <<fdVars, plVars, nwVars, cmVars>>
    \/ M_Return /\ UNCHANGED <<fdVars, plVars, nwVars, cmVars>>
    \/ \E i \in Idx : G_Start(i) /\ UNCHANGED <<fdVars, plVars, nwVars, cmVars>>
    \/ \E i \in Idx : \E r \in Responses : G_Response(i, r) /\ UNCHANGED <<fdVars, plVars, nwVars, cmVars>>
    \/ \E i \in Idx : G_BodyIn(i) /\ UNCHANGED <<fdVars, plVars, nwVars, cmVars>>
    \/ \E i \in Idx : \E r \in Responses : G_Decode(i, r) /\ UNCHANGED <<fdVars, plVars, nwVars, cmVars>>
    \/ \E i \in Idx : G_ReadAbort(i) /\ UNCHANGED <<fdVars, plVars, nwVars, cmVars>>
    \/ \E i \in Idx : G_ConnFail(i) /\ UNCHANGED <<fdVars, plVars, nwVars, cmVars>>
    \/ \E i \in Idx : G_Abort(i) /\ UNCHANGED <<fdVars, plVars, nwVars, cmVars>>
    \/ \E i \in Idx : G_Done(i) /\ UNCHANGED <<fdVars, plVars, nwVars, cmVars>>
    \/ Tick /\ UNCHANGED <<fdVars, plVars, nwVars, cmVars>>
    \/ Cancel /\ UNCHANGED <<fdVars, plVars, nwVars, cmVars>>

Spec == Init /\ [][Next]_vars

\* The Go scheduler runs every runnable goroutine in the end, net/http makes a
\* pending call return once its context is done or its timeout has run out,
\* and time passes.  The remote endpoint owes no answer.
Fairness ==
    /\ WF_vars(M_Launch /\ UNCHANGED <<fdVars, plVars, nwVars, cmVars>>)
    /\ WF_vars(M_LoopEnd /\ UNCHANGED <<fdVars, plVars, nwVars, cmVars>>)
    /\ WF_vars(M_Return /\ UNCHANGED <<fdVars, plVars, nwVars, cmVars>>)
    /\ \A i \in 1..MaxLocs : WF_vars(i \in Idx /\ G_Start(i) /\ UNCHANGED <<fdVars, plVars, nwVars, cmVars>>)
    /\ \A i \in 1..MaxLocs : WF_vars(i \in Idx /\ G_Abort(i) /\ UNCHANGED <<fdVars, plVars, nwVars, cmVars>>)
    /\ \A i \in 1..MaxLocs : WF_vars(i \in Idx /\ G_ReadAbort(i) /\ UNCHANGED <<fdVars, plVars, nwVars, cmVars>>)
    /\ \A i \in 1..MaxLocs : WF_vars(i \in Idx /\ (\E r \in Responses : G_Decode(i, r))
                                      /\ UNCHANGED <<fdVars, plVars, nwVars, cmVars>>)
    /\ \A i \in 1..MaxLocs : WF_vars(i \in Idx /\ G_Done(i) /\ UNCHANGED <<fdVars, plVars, nwVars, cmVars>>)
    /\ WF_vars(Tick /\ UNCHANGED <<fdVars, plVars, nwVars, cmVars>>)

SpecFair == Spec /\ Fairness

\* one call of fetcher.FetchWeatherData
InitFetcher == IdleFM /\ InitFD /\ IdlePL /\ IdleNew /\ IdleCmd

NextFetcher ==
    \/ F_Get /\ UNCHANGED <<fmVars, plVars, nwVars, cmVars>>
    \/ F_GetFailed /\ UNCHANGED <<fmVars, plVars, nwVars, cmVars>>
    \/ \E r \in HourlyResponses : F_Response(r) /\ UNCHANGED <<fmVars, plVars, nwVars, cmVars>>
    \/ \E r \in HourlyResponses : F_Decode(r) /\ UNCHANGED <<fmVars, plVars, nwVars, cmVars>>
    \/ F_Tick /\ UNCHANGED <<fmVars, plVars, nwVars, cmVars>>

SpecFetcher == InitFetcher /\ [][NextFetcher]_vars

\* one run of main of weather-compare
InitPipeline == IdleFM /\ IdleFD /\ InitPL /\ IdleNew /\ IdleCmd

NextPipeline ==
    \/ P_Range /\ UNCHANGED <<fmVars, fdVars, nwVars, cmVars>>
    \/ P_GoFetch /\ UNCHANGED <<fmVars, fdVars, nwVars, cmVars>>
    \/ P_GoObserver /\ UNCHANGED <<fmVars, fdVars, nwVars, cmVars>>
    \/ \E k \in Configured : PF_Get(k) /\ UNCHANGED <<fmVars, fdVars, nwVars, cmVars>>
    \/ \E k \in Configured : PF_GetFailed(k) /\ UNCHANGED <<fmVars, fdVars, nwVars, cmVars>>
    \/ \E k \in Configured : \E r \in PipelineResponses :
          PF_Response(k, r) /\ UNCHANGED <<fmVars, fdVars, nwVars, cmVars>>
    \/ \E k \in Configured : \E r \in PipelineResponses :
          PF_Decode(k, r) /\ UNCHANGED <<fmVars, fdVars, nwVars, cmVars>>
    \/ \E k \in Configured : PF_Tag(k) /\ UNCHANGED <<fmVars, fdVars, nwVars, cmVars>>
    \/ \E k \in Configured : PF_Send(k) /\ UNCHANGED <<fmVars, fdVars, nwVars, cmVars>>
    \/ \E k \in Configured : PF_Done(k) /\ UNCHANGED <<fmVars, fdVars, nwVars, cmVars>>
    \/ \E c \in Conts : P_Observe(c) /\ UNCHANGED <<fmVars, fdVars, nwVars, cmVars>>
    \/ P_Receive /\ UNCHANGED <<fmVars, fdVars, nwVars, cmVars>>
    \/ P_ReceiveDone /\ UNCHANGED <<fmVars, fdVars, nwVars, cmVars>>
    \/ P_Close /\ UNCHANGED <<fmVars, fdVars, nwVars, cmVars>>
    \/ \E order \in KeyOrders(GroupKeys(weatherData)) :
          P_Compare(order) /\ UNCHANGED <<fmVars, fdVars, nwVars, cmVars>>
    \/ P_Tick /\ UNCHANGED <<fmVars, fdVars, nwVars, cmVars>>

SpecPipeline == InitPipeline /\ [][NextPipeline]_vars

\* The Go scheduler runs every runnable goroutine in the end, a receive from
\* a channel that holds a value returns, and time passes.  The remote endpoint
\* owes no answer, and http.Get without a timeout owes no return.
FairnessPipeline ==
    /\ WF_vars(P_Range /\ UNCHANGED <<fmVars, fdVars, nwVars, cmVars>>)
    /\ WF_vars(P_GoFetch /\ UNCHANGED <<fmVars, fdVars, nwVars, cmVars>>)
    /\ WF_vars(P_GoObserver /\ UNCHANGED <<fmVars, fdVars, nwVars, cmVars>>)
    /\ \A k \in Fetchers :
          WF_vars(k \in Configured /\ PF_Get(k) /\ UNCHANGED <<fmVars, fdVars, nwVars, cmVars>>)
    /\ \A k \in Fetchers :
          WF_vars(k \in Configured /\ PF_Tag(k) /\ UNCHANGED <<fmVars, fdVars, nwVars, cmVars>>)
    /\ \A k \in Fetchers :
          WF_vars(k \in Configured /\ PF_Send(k) /\ UNCHANGED <<fmVars, fdVars, nwVars, cmVars>>)
    /\ \A k \in Fetchers :
          WF_vars(k \in Configured /\ PF_Done(k) /\ UNCHANGED <<fmVars, fdVars, nwVars, cmVars>>)
    /\ \A c \in 1..Len(ContinentNames) :
          WF_vars(c \in Conts /\ P_Observe(c) /\ UNCHANGED <<fmVars, fdVars, nwVars, cmVars>>)
    /\ WF_vars(P_Receive /\ UNCHANGED <<fmVars, fdVars, nwVars, cmVars>>)
    /\ WF_vars(P_ReceiveDone /\ UNCHANGED <<fmVars, fdVars, nwVars, cmVars>>)
    /\ WF_vars(P_Close /\ UNCHANGED <<fmVars, fdVars, nwVars, cmVars>>)
    /\ WF_vars((\E order \in KeyOrders(GroupKeys(weatherData)) : P_Compare(order))
               /\ UNCHANGED <<fmVars, fdVars, nwVars, cmVars>>)
    /\ WF_vars(P_Tick /\ UNCHANGED <<fmVars, fdVars, nwVars, cmVars>>)

SpecPipelineFair == SpecPipeline /\ FairnessPipeline

\* SpecPipelineFair and a remote endpoint (or a network) that lets every
\* http.Get return
FetchesReturn ==
    \A k \in Fetchers :
        /\ WF_vars(k \in Configured /\ PF_GetFailed(k) /\ UNCHANGED <<fmVars, fdVars, nwVars, cmVars>>)
        /\ WF_vars(k \in Configured /\ (\E r \in PipelineResponses : PF_Decode(k, r))
                      /\ UNCHANGED <<fmVars, fdVars, nwVars, cmVars>>)

SpecPipelineReturning == SpecPipelineFair /\ FetchesReturn

\* one call of comparer.CompareWeatherData
InitCompare == IdleFM /\ IdleFD /\ InitCompareCall /\ IdleNew /\ IdleCmd

NextCompare ==
    \E order \in KeyOrders(GroupKeys(weatherData)) :
        P_Compare(order) /\ UNCHANGED <<fmVars, fdVars, nwVars, cmVars>>

SpecCompare == InitCompare /\ [][NextCompare]_vars

\* one call of New
InitNewCall == IdleFM /\ IdleFD /\ IdlePL /\ InitNew /\ IdleCmd

NextNew == N_New /\ UNCHANGED <<fmVars, fdVars, plVars, cmVars>>

SpecNew == InitNewCall /\ [][NextNew]_vars

\* one run of main of the cmd tool
InitCmdRun == IdleFM /\ IdleFD /\ IdlePL /\ IdleNew /\ InitCmd

NextCmd ==
    \/ C_Prepare /\ UNCHANGED <<fmVars, fdVars, plVars, nwVars>>
    \/ \E ok \in SUBSET (1..Len(allLocations)) :
          C_Fetch(ok) /\ UNCHANGED <<fmVars, fdVars, plVars, nwVars>>
    \/ \E order \in KeyOrders(DOMAIN GroupByContinent(fetched, continentMap)) :
          C_Display(order) /\ UNCHANGED <<fmVars, fdVars, plVars, nwVars>>

SpecCmd == InitCmdRun /\ [][NextCmd]_vars

\* one call of Client.FetchWeather (FetchMultiple over one location) and one
\* call of fetcher.FetchWeatherData for the same place, against endpoints
\* that may answer with any status and any body
AnyResponses == {Response(st, b) : st \in Statuses, b \in BodyKinds}

AnyHourlyResponses == {Response(st, b) : st \in Statuses, b \in HourlyBodies}

InitBoth ==
    /\ InitFM
    /\ N = 1
    /\ InitFD
    /\ fd_city = locations[1]
    /\ IdlePL /\ IdleNew /\ IdleCmd

NextBoth ==
    \/ M_Launch /\ UNCHANGED <<fdVars, plVars, nwVars, cmVars>>
    \/ M_LoopEnd /\ UNCHANGED <<fdVars, plVars, nwVars, cmVars>>
    \/ M_Return /\ UNCHANGED <<fdVars, plVars, nwVars, cmVars>>
    \/ \E i \in Idx : G_Start(i) /\ UNCHANGED <<fdVars, plVars, nwVars, cmVars>>
    \/ \E i \in Idx : \E r \in AnyResponses :
          G_Response(i, r) /\ UNCHANGED <<fdVars, plVars, nwVars, cmVars>>
    \/ \E i \in Idx : G_BodyIn(i) /\ UNCHANGED <<fdVars, plVars, nwVars, cmVars>>
    \/ \E i \in Idx : \E r \in Responses : G_Decode(i, r) /\ UNCHANGED <<fdVars, plVars, nwVars, cmVars>>
    \/ \E i \in Idx : G_ReadAbort(i) /\ UNCHANGED <<fdVars, plVars, nwVars, cmVars>>
    \/ \E i \in Idx : G_ConnFail(i) /\ UNCHANGED <<fdVars, plVars, nwVars, cmVars>>
    \/ \E i \in Idx : G_Abort(i) /\ UNCHANGED <<fdVars, plVars, nwVars, cmVars>>
    \/ \E i \in Idx : G_Done(i) /\ UNCHANGED <<fdVars, plVars, nwVars, cmVars>>
    \/ Tick /\ UNCHANGED <<fdVars, plVars, nwVars, cmVars>>
    \/ Cancel /\ UNCHANGED <<fdVars, plVars, nwVars, cmVars>>
    \/ F_Get /\ UNCHANGED <<fmVars, plVars, nwVars, cmVars>>
    \/ F_GetFailed /\ UNCHANGED <<fmVars, plVars, nwVars, cmVars>>
    \/ \E r \in AnyHourlyResponses :
          F_Response(r) /\ UNCHANGED <<fmVars, plVars, nwVars, cmVars>>
    \/ \E r \in HourlyResponses : F_Decode(r) /\ UNCHANGED <<fmVars, plVars, nwVars, cmVars>>
    \/ F_Tick /\ UNCHANGED <<fmVars, plVars, nwVars, cmVars>>

SpecBoth == InitBoth /\ [][NextBoth]_vars

\* ------------------------------------------------------------- properties
Returned == mpc = "returned"

Failed(i) == results[i].Error # NilErr

\* the remote call of index i was answered with status 200 and a body that decodes
RemoteSucceeded(i) ==
    /\ resp[i].status = StatusOK
    /\ resp[i].body \in {"temp", "nofield"}

\* the temperature in the payload sent for index i
PayloadTemp(i) == IF resp[i].body = "temp" THEN RemoteTemp(locations[i]) ELSE 0

\* C1: FetchMultiple returns exactly n results, and the result at index i is
\* the one of locations[i], whatever the outcomes and the completion order
C1_ResultsMatchInput ==
    Returned =>
        /\ DOMAIN results = 1..N
        /\ \A i \in Idx : results[i].Location = locations[i]

\* two distinct places, the fetch of index 2 completed before that of index 1
C1_Witness ==
    /\ Returned
    /\ N = 2
    /\ locations[1] # locations[2]
    /\ results[2].Error = NilErr
    /\ results[2].Timestamp = 2
    /\ results[1].Error = NilErr
    /\ results[1].Timestamp = 3

\* C2: the result at index i depends on the remote call of location i alone:
\* a call that succeeded gives Error = nil and its own temperature, also when
\* a sibling's call failed, and as many results are failed as calls failed
C2_FailureIsolation ==
    Returned =>
        /\ \A i \in Idx : RemoteSucceeded(i) =>
               /\ results[i].Error = NilErr
               /\ results[i].Temperature = PayloadTemp(i)
        /\ Cardinality({i \in Idx : Failed(i)})
               = Cardinality({i \in Idx : ~RemoteSucceeded(i)})

\* the call of index 1 was answered 500, the call of index 2 succeeded
C2_Witness ==
    /\ Returned
    /\ N = 2
    /\ resp[1].status = 500
    /\ Failed(1)
    /\ RemoteSucceeded(2)
    /\ results[2].Error = NilErr
    /\ results[2].Temperature = 153

\* C3: FetchMultiple returns only when every launched goroutine has finished
\* and has written its slot
C3_WaitForAll ==
    Returned =>
        \A i \in Idx :
            /\ gpc[i] = "done"
            /\ fw[i] # NoReturn
            /\ results[i] = SlotValue(locations[i], fw[i])

\* a return after a connection failure and a success that came late
C3_Witness ==
    /\ Returned
    /\ N = 2
    /\ results[1].Error.cause = "connection"
    /\ results[2].Error = NilErr
    /\ results[2].Timestamp = MaxTime + 1

\* C4: for an empty list no goroutine is launched, no remote call is issued
\* and the result is empty
C4_EmptyInput ==
    N = 0 =>
        /\ idx = 1
        /\ wg = 0
        /\ calls = 0
        /\ results = <<>>

\* the call with the empty list has returned
C4_Witness == Returned /\ locations = <<>> /\ results = <<>>

\* FetchWeather has returned to the goroutine of index i
Resolved(i) == gpc[i] \in {"stored", "done"}

\* a step FetchMultiple or one of its goroutines can take without an answer
\* from the remote endpoint and without time passing
ProgramStep ==
    \/ M_Launch
    \/ M_LoopEnd
    \/ M_Return
    \/ \E i \in Idx : G_Start(i) \/ G_Abort(i) \/ G_ReadAbort(i) \/ G_Done(i)
    \/ \E i \in Idx : \E r \in Responses : G_Decode(i, r)

\* the original reading of C5: once the caller's context is done, every
\* fetch still pending, wherever FetchWeather is in it, resolves with a
\* failure
C5_EveryPendingFetchFails ==
    [][\A i \in Idx :
         (CtxDone /\ Pending(i) /\ gpc'[i] = "stored") => results'[i].Error # NilErr]_vars

\* the remote call of fetch i is not complete: the goroutine has not started
\* its fetch, or waits for the response, or for a body that has not arrived
Incomplete(i) == gpc[i] \in {"spawned", "inflight", "reading"}

\* C5: once the caller's context is done (cancelled, or its deadline passed),
\* every pending fetch whose remote call is not complete resolves with a
\* failure, a fetch whose body had arrived resolves with the outcome of its
\* response, and no fetch is left unresolved: until FetchMultiple has
\* returned it can always move on without the remote endpoint
C5_SharedCancellation ==
    /\ [][\A i \in Idx :
            /\ (CtxDone /\ Incomplete(i) /\ gpc'[i] = "stored")
                  => results'[i].Error # NilErr
            /\ (CtxDone /\ gpc[i] = "buffered" /\ gpc'[i] = "stored")
                  => fw'[i] = AfterResponse(locations[i], resp'[i], elapsed[i], now)]_vars
    /\ [](CtxDone => (Returned \/ ENABLED ProgramStep))

\* the caller cancelled while both requests were out, the first without a
\* response, the second with its status 200 and no body yet; both fetches
\* were abandoned and FetchMultiple returned two failures
C5_Witness ==
    /\ Returned
    /\ ctx.cancelled
    /\ N = 2
    /\ calls = 2
    /\ resp[1] = NoResp
    /\ results[1].Error = Err("http request", 0, "context")
    /\ resp[2] = Response(StatusOK, BodyCut)
    /\ results[2].Error = Err("decode response", 0, "context")

\* C6: a fetch whose remote call has not answered in full when the context
\* deadline has passed (it waits for the response, or for a body that has
\* not arrived) can return at once, without anything more from the remote
\* endpoint, and what FetchWeather then returns is a non-nil error and no data
C6_DeadlineHonoured ==
    /\ [][\A i \in Idx :
            (gpc[i] \in {"inflight", "reading"} /\ ctx.remaining = 0
                /\ gpc'[i] \notin {"inflight", "reading"})
                => (fw'[i].data = NilData /\ fw'[i].err # NilErr)]_vars
    /\ [](\A i \in Idx :
            /\ (gpc[i] = "inflight" /\ ctx.remaining = 0) => ENABLED G_Abort(i)
            /\ (gpc[i] = "reading" /\ ctx.remaining = 0) => ENABLED G_ReadAbort(i))

\* both requests went out before the deadline; at the deadline the first had
\* no answer and the second had its status 200 but not its body: both calls
\* of FetchWeather returned the context error, the second from Decode
C6_Witness ==
    /\ N = 2
    /\ ~ctx.cancelled
    /\ ctx.remaining = 0
    /\ timeout = 0
    /\ calls = 2
    /\ Resolved(1) /\ Resolved(2)
    /\ resp[1] = NoResp
    /\ fw[1] = FailWith("http request", 0, "context")
    /\ resp[2] = Response(StatusOK, BodyCut)
    /\ fw[2] = FailWith("decode response", 0, "context")

\* with fairness: once the context is done FetchMultiple returns
CancelledLeadsToReturn ==
    CtxDone ~> (Returned /\ \A i \in Idx : gpc[i] = "done")

\* with fairness: a fetch in flight at the deadline returns an error, whether
\* or not the remote endpoint ever answers
DeadlineLeadsToError ==
    \A i \in 1..MaxLocs :
        (i \in Idx /\ gpc[i] \in {"inflight", "reading"} /\ ctx.remaining = 0)
            ~> (i \in Idx /\ Resolved(i) /\ fw[i].err # NilErr)

\* C7: every returned result carries the time its attempt took and a capture
\* timestamp, the failed ones too: the timestamp is never the zero time, and
\* an attempt that was answered (a round trip takes time) has a duration
C7_EveryResultTimed ==
    Returned =>
        \A i \in Idx : /\ results[i].Timestamp # 0
                       /\ resp[i] # NoResp => results[i].FetchDuration >= 1

\* C8: on every return path FetchWeatherData sets City to the city asked for
\* and FetchDurationSeconds to the time the attempt took
C8_FetcherAlwaysTimed ==
    fd_pc = "returned" =>
        /\ fd_ret.res.City = fd_city.Name
        /\ fd_ret.res.FetchDurationSeconds = Seconds(fd_elapsed)

\* a non-200 answer after two ticks
C8_Witness ==
    /\ fd_pc = "returned"
    /\ fd_resp.status = 500
    /\ fd_ret.res.Error.msg = "API status"
    /\ fd_elapsed = 2
    /\ fd_ret.res.FetchDurationSeconds = 2000

\* C9: FetchWeather returns either data and no error or an error and no data;
\* a result of FetchMultiple has either no error and the measured temperature,
\* or an error and no measured field
C9_SuccessXorFailure ==
    /\ \A i \in Idx : Resolved(i) =>
           \/ fw[i].data # NilData /\ fw[i].err = NilErr
           \/ fw[i].data = NilData /\ fw[i].err # NilErr
    /\ Returned =>
           \A i \in Idx :
               \/ /\ results[i].Error = NilErr
                  /\ RemoteSucceeded(i)
                  /\ results[i].Temperature = PayloadTemp(i)
               \/ /\ results[i].Error # NilErr
                  /\ results[i].Temperature = 0
                  /\ results[i].FetchDuration = 0
                  /\ results[i].Timestamp = 0

\* one success carrying 15.3 degrees and one failure after a 500
C9_Witness ==
    /\ Returned
    /\ N = 2
    /\ fw[1].data # NilData
    /\ results[1].Error = NilErr
    /\ results[1].Temperature = 153
    /\ fw[2].data = NilData
    /\ results[2].Error = Err("API returned status", 500, "none")

\* the error FetchWeather owes to what happened to the call of index i
ErrorOwed(i) ==
    CASE ~apiURLOk                          -> "create request"
      [] resp[i] = NoResp                   -> "http request"
      [] resp[i].status # StatusOK          -> "API returned status"
      [] resp[i].body \in {"invalid", "empty", BodyCut} -> "decode response"
      [] OTHER                              -> "nil"

\* C10: a transport failure, a non-200 status and an undecodable body each
\* become the error of that item, stored in its Error field; a slot is written
\* by its own goroutine only, and FetchMultiple returns whatever the errors
C10_ErrorsAreData ==
    /\ \A i \in Idx :
           IF Resolved(i)
           THEN /\ fw[i].err.msg = ErrorOwed(i)
                /\ results[i].Error = fw[i].err
           ELSE results[i] = ZeroWeatherData
    /\ (mpc = "wait" /\ \A i \in Idx : gpc[i] = "done") => ENABLED M_Return

\* two kinds in one call: an undecodable body for index 1 and a 204 answer
\* for index 2, each in its own slot
C10_Witness ==
    /\ Returned
    /\ N = 2
    /\ resp[1] = Response(StatusOK, "invalid")
    /\ results[1].Error = Err("decode response", 0, "json")
    /\ results[2].Error = Err("API returned status", 204, "none")

\* C11: a 200 response whose body is JSON without the temperature field is
\* reported as a failure by both fetchers: FetchWeather returns no data and a
\* non-nil error, FetchWeatherData a result whose Error is set
C11_MissingFieldIsFailure ==
    /\ \A i \in Idx :
        (Resolved(i) /\ resp[i] = Response(StatusOK, "nofield"))
            => (fw[i].data = NilData /\ fw[i].err # NilErr /\ Failed(i))
    /\ (fd_pc = "returned" /\ fd_resp.status = StatusOK /\ fd_resp.body.kind = "nofield")
            => (fd_ret.res.Error # NilErr /\ fd_ret.err # NilErr)

\* ------------------------------------------ properties of the pipeline
\* the name of the city the fetch goroutine k was launched for
CityOf(k) == cfg[k[1]].Cities[k[2]].Name

\* the results that are in the channel or were collected from it
Produced == weatherData \o resultCh

\* the number of results a sequence holds for the city of k
Copies(k, results_) == Cardinality({i \in 1..Len(results_) : results_[i].City = CityOf(k)})

Collected == ppc \in {"compare", "done"}

\* C12: exactly one result per configured city is collected: a city whose
\* goroutine has sent has one result in the channel or in the collected list,
\* no other city has any, and when the collecting loop is over the list holds
\* one result for each of the total cities
C12_OneResultPerCity ==
    /\ \A k \in Configured :
          Copies(k, Produced) = IF fpc[k] \in {"sent", "done"} THEN 1 ELSE 0
    /\ Len(Produced) = Cardinality({k \in Configured : fpc[k] \in {"sent", "done"}})
    /\ Collected =>
          /\ Len(weatherData) = Total
          /\ \A k \in Configured : Copies(k, weatherData) = 1

\* two continents with a city each; the city of the second was collected first
C12_Witness ==
    /\ ppc = "done"
    /\ Len(cfg) = 2
    /\ Len(cfg[1].Cities) = 1
    /\ Len(cfg[2].Cities) = 1
    /\ Len(weatherData) = 2
    /\ weatherData[1].City = CityOf(<<2, 1>>)
    /\ weatherData[2].City = CityOf(<<1, 1>>)

\* C13: every result in the channel or in the collected list carries the
\* name of the continent its city is configured under
C13_TaggedWithOwnContinent ==
    \A i \in 1..Len(Produced) :
        \E k \in Configured : /\ Produced[i].City = CityOf(k)
                              /\ Produced[i].Continent = cfg[k[1]].Name

\* C14: whatever the remote endpoint does, main gets to the end of its
\* collecting loops and prints the report
C14_CollectionCompletes == <>(ppc = "done")

\* the duration the observer of continent c reported, as a set of no or one value
ReportedDuration(c) ==
    {contDoneCh[i].Duration : i \in {j \in 1..Len(contDoneCh) : contDoneCh[j].Name = cfg[c].Name}}
    \cup (IF cfg[c].Name \in DOMAIN contDurations THEN {contDurations[cfg[c].Name]} ELSE {})

\* the results in the channel or in the collected list that carry the name
\* of continent c: the items of its group in the report
GroupOf(c) == {i \in 1..Len(Produced) : Produced[i].Continent = cfg[c].Name}

\* C15: the duration of a continent is reported only after every fetch of the
\* continent has delivered its result and finished, and it is at least the
\* fetch time of every item of the continent's group
C15_GroupWallTime ==
    \A c \in Conts :
        /\ observer[c] = "sent" <=> ReportedDuration(c) # {}
        /\ \A d \in ReportedDuration(c) :
              /\ \A k \in Configured :
                    k[1] = c => fpc[k] = "done" /\ Copies(k, Produced) = 1
              /\ \A i \in GroupOf(c) : d >= Produced[i].FetchDurationSeconds

\* --------------------------------- properties of CompareWeatherData
Reported == ppc = "done"

Sections == comparisonSummary.sections

\* the positions of the list whose item belongs to the continent key
Members(key) == {i \in 1..Len(weatherData) : weatherData[i].Continent = key}

\* those of them that did not fail
ValidMembers(key) == {i \in Members(key) : weatherData[i].Error = NilErr}

Temps(key) == {weatherData[i].Temperature : i \in ValidMembers(key)}

FetchTimes(key) == {weatherData[i].FetchDurationSeconds : i \in Members(key)}

RECURSIVE TempTotal(_)
TempTotal(is) ==
    IF is = {} THEN 0
    ELSE LET i == CHOOSE j \in is : TRUE
         IN  weatherData[i].Temperature + TempTotal(is \ {i})

RECURSIVE FetchTotal(_)
FetchTotal(is) ==
    IF is = {} THEN 0
    ELSE LET i == CHOOSE j \in is : TRUE
         IN  weatherData[i].FetchDurationSeconds + FetchTotal(is \ {i})

Least(xs) == CHOOSE x \in xs : \A y \in xs : x <= y

Greatest(xs) == CHOOSE x \in xs : \A y \in xs : x >= y

\* printed is the quotient total/n rounded to the last printed decimal
Rounds(printed, total, n) ==
    /\ 2 * (printed * n - total) <= n
    /\ 2 * (total - printed * n) <= n

\* C16: the temperature statistics of a section are those of the valid items
\* of its group: their number, their average, their least and greatest
\* temperature; the temperature of a failed item has no part in them
C16_TemperatureStatsOverValid ==
    Reported =>
        \A s \in 1..Len(Sections) :
            LET key == Sections[s].Continent
                line == Sections[s].temps
                v == Cardinality(ValidMembers(key))
            IN  v > 0 =>
                  /\ line.kind = "stats"
                  /\ line.count = v
                  /\ Rounds(line.avg, 100 * TempTotal(ValidMembers(key)), v)
                  /\ line.min = 10 * Least(Temps(key))
                  /\ line.max = 10 * Greatest(Temps(key))

\* a group of the valid temperatures 10 and 20 and a failed item that
\* carries 99: two cities, 15.00 on average, from 10.0 to 20.0
C16_Witness ==
    /\ Reported
    /\ \E s \in 1..Len(Sections) :
          /\ Cardinality(Members(Sections[s].Continent)) = 3
          /\ Temps(Sections[s].Continent) = {10, 20}
          /\ \E i \in Members(Sections[s].Continent) :
                weatherData[i].Error # NilErr /\ weatherData[i].Temperature = 99
          /\ Sections[s].temps =
                [kind |-> "stats", count |-> 2, avg |-> 1500, min |-> 100, max |-> 200]

\* C17: the fetch time statistics of a section are those of all items of its
\* group, the failed ones included: their average, their least and greatest
\* fetch time
C17_LatencyStatsOverAll ==
    Reported =>
        \A s \in 1..Len(Sections) :
            LET key == Sections[s].Continent
                n == Cardinality(Members(key))
            IN  /\ Len(Sections[s].fetch) = 1
                /\ Rounds(Sections[s].fetch[1].avg, FetchTotal(Members(key)), n)
                /\ Sections[s].fetch[1].min = Least(FetchTimes(key))
                /\ Sections[s].fetch[1].max = Greatest(FetchTimes(key))

\* a group of three items in which only the failed one took two seconds:
\* 1.333 seconds on average, from 1.000 to 2.000
C17_Witness ==
    /\ Reported
    /\ \E s \in 1..Len(Sections) :
          LET key == Sections[s].Continent
          IN  /\ Cardinality(Members(key)) = 3
              /\ \E i \in Members(key) :
                    /\ weatherData[i].Error # NilErr
                    /\ weatherData[i].FetchDurationSeconds = Seconds(2)
                    /\ \A j \in Members(key) \ {i} :
                          /\ weatherData[j].Error = NilErr
                          /\ weatherData[j].FetchDurationSeconds = Seconds(1)
              /\ Sections[s].fetch = <<[avg |-> 1333, min |-> 1000, max |-> 2000]>>

\* C18: a section says "No valid temperature data for this continent."
\* exactly when every item of its group failed; otherwise it has the
\* statistics line, with a count of at least one
C18_NoStatsWithoutValidItems ==
    Reported =>
        \A s \in 1..Len(Sections) :
            LET line == Sections[s].temps
                v == Cardinality(ValidMembers(Sections[s].Continent))
            IN  /\ line.kind \in {"stats", "No valid temperature data for this continent."}
                /\ line.kind = "No valid temperature data for this continent." <=> v = 0
                /\ line.kind = "stats" => (line.count = v /\ v >= 1)

\* one group whose two items failed, and one group with a valid item
C18_Witness ==
    /\ Reported
    /\ \E s, t \in 1..Len(Sections) :
          /\ Cardinality(Members(Sections[s].Continent)) = 2
          /\ ValidMembers(Sections[s].Continent) = {}
          /\ Sections[s].temps.kind = "No valid temperature data for this continent."
          /\ Sections[t].temps.kind = "stats"
          /\ Sections[t].temps.count = 1

\* the per-city lines of the report, each with the continent of its section
Lines ==
    UNION {{[Continent |-> Sections[s].Continent, n |-> i, line |-> Sections[s].lines[i]] :
               i \in 1..Len(Sections[s].lines)} : s \in 1..Len(Sections)}

\* the line l renders the result r
Renders(l, r) ==
    /\ l.Continent = r.Continent
    /\ l.line.City = r.City
    /\ l.line.fetch = r.FetchDurationSeconds
    /\ IF r.Error # NilErr
       THEN l.line.kind = "ERROR" /\ l.line.Error = r.Error
       ELSE l.line.kind = "temp" /\ l.line.temp = 10 * r.Temperature

\* C19: every result of a non-empty list has exactly one per-city line, in
\* the section of its continent, a failed one with its error and fetch time;
\* there are as many lines as results, and no section is written twice
C19_EveryInputHasItsLine ==
    (Reported /\ weatherData # <<>>) =>
        /\ \A i \in 1..Len(weatherData) :
              Cardinality({l \in Lines : Renders(l, weatherData[i])}) = 1
        /\ Cardinality(Lines) = Len(weatherData)
        /\ \A s, t \in 1..Len(Sections) :
              Sections[s].Continent = Sections[t].Continent => s = t

\* three results of two continents, one of them failed: three lines
C19_Witness ==
    /\ Reported
    /\ Len(weatherData) = 3
    /\ Len(Sections) = 2
    /\ Cardinality(Lines) = 3
    /\ \E l \in Lines : l.line.kind = "ERROR" /\ l.line.fetch = Seconds(2)

\* C20: the sections of the report are the continents that occur among the
\* results, one section each and each with at least one line; a key of the
\* durations map that no result carries gets no section
C20_SectionsAreOccurringGroups ==
    (Reported /\ weatherData # <<>>) =>
        /\ {Sections[s].Continent : s \in 1..Len(Sections)} = GroupKeys(weatherData)
        /\ Len(Sections) = Cardinality(GroupKeys(weatherData))
        /\ \A s \in 1..Len(Sections) : Len(Sections[s].lines) >= 1

\* a run of main over Europe with a city and Asia with none: the durations
\* map has an entry for Asia, the report a section for Europe only
C20_Witness ==
    /\ Reported
    /\ Len(cfg) = 2
    /\ Len(cfg[1].Cities) = 1
    /\ cfg[2].Cities = <<>>
    /\ cfg[2].Name \in DOMAIN contDurations
    /\ Len(Sections) = 1
    /\ Sections[1].Continent = cfg[1].Name

\* C21: CompareWeatherData is deterministic: the report a call is about to
\* return is the same whatever order range visits the groups map in
C21_ReportIsDeterministic ==
    ppc = "compare" =>
        \A o1, o2 \in KeyOrders(GroupKeys(weatherData)) :
            CompareWeatherData(weatherData, contDurations, o1)
                = CompareWeatherData(weatherData, contDurations, o2)

\* a step writes slot j
Writes(j) == results'[j] # results[j]

\* C22: in FetchMultiple a slot of results is written only by the goroutine
\* launched for its index, in the one step in which that goroutine's fetch
\* returns, and that step writes no other slot; a goroutine that has written
\* never writes again, and when wg.Wait has returned every slot has been
\* written
C22_OneWriterPerSlot ==
    /\ [][\A j \in Idx :
            /\ Writes(j) =>
                  /\ gpc[j] \in {"spawned", "inflight", "reading", "buffered"}
                  /\ gpc'[j] = "stored"
                  /\ \A k \in Idx \ {j} : ~Writes(k) /\ gpc'[k] = gpc[k]
            /\ gpc[j] \in {"stored", "done"} =>
                  /\ gpc'[j] \in {"stored", "done"}
                  /\ ~Writes(j)]_vars
    /\ [](Returned => \A j \in Idx : gpc[j] = "done" /\ results[j] # ZeroWeatherData)

C22_Witness ==
    /\ Returned
    /\ N = 2
    /\ results[1].Error = NilErr /\ results[1].Location = locations[1]
    /\ results[2].Error # NilErr /\ results[2].Location = locations[2]

\* the original reading of C23: a FetchMultiple call over n locations has
\* issued exactly n remote calls when it returns, whatever the outcomes
C23_ExactlyOneCallEach == Returned => calls = N

\* goroutine i leaves its starting point in this step
Starts(i) == gpc[i] = "spawned" /\ gpc'[i] # "spawned"

\* C23: one attempt per item at most, no retry: a remote call is issued only
\* in the step in which a goroutine starts its fetch, one call in that step
\* and only when the request can be built and the context is not yet done; a
\* goroutine never goes back to its starting point, so a failed call is never
\* re-issued; the count never exceeds n, it is n at the return when the URL
\* is valid and the context is still not done, and 0 when the URL is not valid
C23_AtMostOneCallEach ==
    /\ [][/\ \A i \in Idx :
               /\ Starts(i) =>
                     calls' = calls + (IF apiURLOk /\ ~CtxDone THEN 1 ELSE 0)
               /\ gpc'[i] = "spawned" => gpc[i] \in {"none", "spawned"}
          /\ calls' # calls => \E i \in Idx : Starts(i) /\ gpc'[i] = "inflight"]_vars
    /\ [](calls <= N)
    /\ [](Returned /\ apiURLOk /\ ~CtxDone => calls = N)
    /\ [](Returned /\ ~apiURLOk => calls = 0)

\* the context was cancelled after the first fetch had started and before the
\* second did: one call for two locations
C23_Witness ==
    /\ Returned
    /\ N = 2
    /\ apiURLOk
    /\ calls = 1
    /\ results[1].Error = NilErr
    /\ results[2].Error = Err("http request", 0, "context")

\* the remote answered fetch i with status 200 and a payload that carries
\* current.temperature_2m
ValidAnswer(i) == Resolved(i) /\ resp[i] = Response(StatusOK, "temp")

\* C24: on a 200 response with a valid payload FetchWeather returns a nil
\* error and a record whose Location is the input location, whose Temperature
\* is the payload's value, whose Error is nil and whose FetchDuration and
\* Timestamp are non-zero
C24_SuccessRecord ==
    \A i \in Idx :
        ValidAnswer(i) =>
            /\ fw[i].err = NilErr
            /\ Len(fw[i].data) = 1
            /\ fw[i].data[1].Location = locations[i]
            /\ fw[i].data[1].Temperature = RemoteTemp(locations[i])
            /\ fw[i].data[1].Error = NilErr
            /\ fw[i].data[1].FetchDuration # 0
            /\ fw[i].data[1].Timestamp # 0

C24_Witness ==
    /\ N >= 1
    /\ ValidAnswer(1)
    /\ fw[1].data = <<WeatherData(locations[1], RemoteTemp(locations[1]), 2, 3, NilErr)>>
    /\ RemoteTemp(locations[1]) # 0

\* what the call of New left behind
NewOutcome == [panicked |-> npc = "panicked", c |-> newClient, heap |-> httpClients]

\* the positions of the options that set a field
Setting(field) == {i \in 1..Len(opts) : opts[i].sets = field}

\* the last option that sets a field
LastSetting(field) == opts[Greatest(Setting(field))]

\* the options with those at i and i + 1 exchanged
Swapped(os, i) ==
    [k \in 1..Len(os) |-> IF k = i THEN os[i + 1] ELSE IF k = i + 1 THEN os[i] ELSE os[k]]

\* C25: after New a field no option sets has its default, a field options
\* set has the value of the last option setting it, exchanging two
\* neighbouring options for different fields changes nothing, and when New
\* has returned the Timeout of the Client's HTTP client is the Client's timeout
C25_OptionsConfigureClient ==
    /\ npc = "returned" =>
        /\ newClient.apiURL = IF Setting("apiURL") = {} THEN DefaultAPIURL
                              ELSE LastSetting("apiURL").url
        /\ newClient.timeout = IF Setting("timeout") = {} THEN DefaultTimeout
                               ELSE LastSetting("timeout").d
        /\ newClient.httpClient = IF Setting("httpClient") = {} THEN FreshClient
                                  ELSE LastSetting("httpClient").hc
        /\ httpClients[newClient.httpClient] = newClient.timeout
    /\ npc \in {"returned", "panicked"} =>
        \A i \in 1..(Len(opts) - 1) :
            opts[i].sets # opts[i + 1].sets => New(Swapped(opts, i)) = NewOutcome

C25_Witness ==
    /\ npc = "returned"
    /\ opts = <<WithTimeout(5), WithHTTPClient("a")>>
    /\ newClient = Client(DefaultAPIURL, "a", 5)
    /\ httpClients["a"] = 5

\* a step of main, of a fetch goroutine or of an observer, the return of a
\* pending http.Get included; time passing is not one
PipelineStep ==
    \/ P_Range
    \/ P_GoFetch
    \/ P_GoObserver
    \/ \E k \in Configured : PF_Get(k) \/ PF_GetFailed(k) \/ PF_Tag(k) \/ PF_Send(k) \/ PF_Done(k)
    \/ \E k \in Configured : \E r \in PipelineResponses : PF_Decode(k, r)
    \/ \E c \in Conts : P_Observe(c)
    \/ P_Receive
    \/ P_ReceiveDone
    \/ P_Close
    \/ \E order \in KeyOrders(GroupKeys(weatherData)) : P_Compare(order)

\* C26: the grouped pipeline cannot deadlock when every fetch returns: a fetch
\* goroutine that holds its result can tag it and send it at once, an observer whose
\* WaitGroup is at zero can send its duration at once, until the report is
\* made some goroutine can always take a step, and when the report is made
\* every result and every duration has been received and no goroutine is left
C26_NoDeadlock ==
    /\ \A k \in Configured : fpc[k] = "returned" => ENABLED PF_Tag(k)
    /\ \A k \in Configured : fpc[k] = "tagged" => ENABLED PF_Send(k)
    /\ \A c \in Conts : (observer[c] = "waiting" /\ contWg[c] = 0) => ENABLED P_Observe(c)
    /\ ppc \in {"range", "cities", "collect", "compare"} => ENABLED PipelineStep
    /\ ppc = "done" =>
          /\ Len(weatherData) = Total
          /\ di = Len(cfg)
          /\ \A k \in Configured : fpc[k] = "done"
          /\ \A c \in Conts : observer[c] = "sent"
          /\ resultCh = <<>> /\ contDoneCh = <<>>

\* both fetches returned before main began to receive: both results waited in
\* the channel, and so did both durations
C26_Witness ==
    /\ ppc = "collect"
    /\ Len(cfg) = 2
    /\ Len(resultCh) = 2
    /\ Len(contDoneCh) = 2
    /\ weatherData = <<>>

\* with fair scheduling and fetches that return, the report is made
ReturningLeadsToReport == <>(ppc = "done")

\* the fetch of k1 is launched before the fetch of k2
LaunchedBefore(k1, k2) == k1[1] < k2[1] \/ (k1[1] = k2[1] /\ k1[2] < k2[2])

\* C27: the order of the collected result list does not depend on the order
\* in which the fetches complete: whatever that order was, the collected
\* results are in the order in which their cities are configured and launched
C27_OrderIndependentOfCompletion ==
    Collected =>
        \A i, j \in 1..Len(weatherData) :
            i < j =>
                \A k1, k2 \in Configured :
                    (weatherData[i].City = CityOf(k1) /\ weatherData[j].City = CityOf(k2))
                        => LaunchedBefore(k1, k2)

\* the position in the input list of the n-th result of a continent
MemberAt(key, n) ==
    CHOOSE p \in Members(key) : Cardinality({q \in Members(key) : q < p}) = n - 1

\* C28: inside each section the per-city lines are in the relative order of
\* the input list: the n-th line of a section is the line of the n-th result
\* of that continent in the input
C28_LinesKeepInputOrder ==
    Reported =>
        \A s \in 1..Len(Sections) :
            LET key == Sections[s].Continent
            IN  /\ Len(Sections[s].lines) = Cardinality(Members(key))
                /\ \A n \in 1..Len(Sections[s].lines) :
                      Renders([Continent |-> key, n |-> n, line |-> Sections[s].lines[n]],
                              weatherData[MemberAt(key, n)])

\* the first and the third result are of one continent, the second of the
\* other: the section of the first lists the first, then the third
C28_Witness ==
    /\ Reported
    /\ Len(weatherData) = 3
    /\ weatherData[1].Continent = weatherData[3].Continent
    /\ weatherData[2].Continent # weatherData[1].Continent
    /\ \E s \in 1..Len(Sections) :
          /\ Len(Sections[s].lines) = 2
          /\ Sections[s].lines[1].City = weatherData[1].City
          /\ Sections[s].lines[2].City = weatherData[3].City

\* the fetch goroutines of continent c that have not ended
Unfinished(c) == {k \in Configured : k[1] = c /\ fpc[k] # "done"}

\* C29: the observer of a continent waits for the fetches of its own
\* continent only: while it waits, its WaitGroup counts exactly the unfinished
\* fetches of its continent, and it can send its duration as soon as, and
\* only when, none of them is left, wherever the fetches of the other
\* continents are
C29_ObserverWaitsForOwnGroup ==
    \A c \in Conts :
        observer[c] = "waiting" =>
            /\ contWg[c] = Cardinality(Unfinished(c))
            /\ (Unfinished(c) = {}) <=> ENABLED P_Observe(c)

\* the duration of the second continent was sent while the request of the
\* first continent was still out
C29_Witness ==
    /\ Len(cfg) = 2
    /\ <<1, 1>> \in Configured /\ <<2, 1>> \in Configured
    /\ fpc[<<1, 1>>] = "inflight"
    /\ fpc[<<2, 1>>] = "done"
    /\ observer[1] = "waiting"
    /\ observer[2] = "sent"

\* the fetches that were started and have not returned
InFlight == {i \in Idx : OnTheWire(i)}

\* C30: the fan-out of FetchMultiple is not bounded: while locations are left
\* the loop can launch the next goroutine, and a launched goroutine can start
\* its fetch, however many fetches are still running and whether or not any
\* has finished
C30_UnboundedFanOut ==
    /\ (mpc = "loop" /\ idx <= N) => ENABLED M_Launch
    /\ \A i \in Idx : gpc[i] = "spawned" => ENABLED G_Start(i)

\* all fetches of the longest list are in flight at the same time
C30_Witness ==
    /\ N = MaxLocs
    /\ InFlight = Idx
    /\ calls = N
    /\ wg = N

\* ------------------------------------------- properties of the cmd tool
Displayed == cpc = "displayed"

\* the continents of the file that list a city of that name
ListedUnder(name) ==
    {c \in 1..Len(cmdCfg) : \E j \in 1..Len(cmdCfg[c].Cities) : cmdCfg[c].Cities[j].Name = name}

\* no display name is configured twice
UniqueNames ==
    \A c1, c2 \in 1..Len(cmdCfg) :
        \A j1 \in 1..Len(cmdCfg[c1].Cities) :
            \A j2 \in 1..Len(cmdCfg[c2].Cities) :
                cmdCfg[c1].Cities[j1].Name = cmdCfg[c2].Cities[j2].Name
                    => (c1 = c2 /\ j1 = j2)

\* how often the group of a key holds the result r (not at all when there is
\* no such group)
TimesIn(key, r) ==
    IF key \in DOMAIN groups
    THEN Cardinality({n \in 1..Len(groups[key]) : groups[key][n] = r})
    ELSE 0

\* C31: when all configured city names are unique, displayResults puts every
\* result once in the group of the continent its city is configured under,
\* and in no other group
C31_GroupedUnderOwnContinent ==
    (Displayed /\ UniqueNames) =>
        \A i \in 1..Len(fetched) :
            \A c \in ListedUnder(fetched[i].Location.Name) :
                /\ TimesIn(cmdCfg[c].Name, fetched[i]) = 1
                /\ \A key \in DOMAIN groups \ {cmdCfg[c].Name} : TimesIn(key, fetched[i]) = 0

\* three cities with different names under two continents, one fetch failed
C31_Witness ==
    /\ Displayed
    /\ UniqueNames
    /\ Len(fetched) = 3
    /\ DOMAIN groups = {"Europe", "Asia"}
    /\ Len(groups["Europe"]) = 2
    /\ \E i \in 1..3 : fetched[i].Error # NilErr /\ TimesIn("Europe", fetched[i]) = 1

\* the results for the display name
Named(name) == {i \in 1..Len(fetched) : fetched[i].Location.Name = name}

\* C36: when two continents list a city of the same display name,
\* displayResults puts every result of that name in the group of the
\* continent that lists it last, and the group of a continent that lists it
\* earlier has no result of that name
C36_SharedNameGoesToLastContinent ==
    Displayed =>
        \A name \in CityNames :
            \A c1, c2 \in ListedUnder(name) :
                (c1 < c2 /\ \A c \in ListedUnder(name) : c <= c2) =>
                    /\ \A i \in Named(name) : TimesIn(cmdCfg[c2].Name, fetched[i]) >= 1
                    /\ \A i \in Named(name) : TimesIn(cmdCfg[c1].Name, fetched[i]) = 0

\* Europe lists Berlin and Paris, Asia lists another Berlin: the section of
\* Europe has Paris alone, the section of Asia both Berlins
C36_Witness ==
    /\ Displayed
    /\ Len(fetched) = 3
    /\ ListedUnder("Berlin") = {1, 2}
    /\ DOMAIN groups = {"Europe", "Asia"}
    /\ Len(groups["Europe"]) = 1
    /\ groups["Europe"][1].Location.Name = "Paris"
    /\ Len(groups["Asia"]) = 2
    /\ groups["Asia"][1].Location = CityUnder(1, "Berlin")
    /\ groups["Asia"][2].Location = CityUnder(2, "Berlin")

\* ---------------------------------------- properties of the fetcher
FetcherReturned == fd_pc = "returned"

\* C32: FetchWeatherData returns a non-nil error exactly when the Error field
\* of the result it returns is non-nil; when both are nil the response had a
\* temperature series and Temperature is its first element
C32_ErrorAgreesWithResult ==
    FetcherReturned =>
        /\ (fd_ret.err # NilErr) <=> (fd_ret.res.Error # NilErr)
        /\ fd_ret.err = NilErr =>
              /\ fd_resp.body.kind = "series"
              /\ Len(fd_resp.body.series) >= 1
              /\ fd_ret.res.Temperature = fd_resp.body.series[1]

\* a series of two values: the first is returned
C32_Witness ==
    /\ FetcherReturned
    /\ fd_resp = Response(StatusOK, [kind |-> "series", series |-> <<20, 15>>])
    /\ fd_ret.err = NilErr
    /\ fd_ret.res.Error = NilErr
    /\ fd_ret.res.Temperature = 20

\* a body that is JSON: Decode accepts it
IsJSON(kind) == kind \in {"temp", "nofield", "series"}

\* C33: a fetch is a success exactly when the transport completed with a
\* response, the status is 200 and the body decodes, and for FetchWeatherData
\* when moreover the decoded temperature series is not empty; any other
\* status, 204 included, and an empty or undecodable body make a failure
C33_SuccessIffOkAndDecodable ==
    /\ \A i \in Idx :
          Resolved(i) =>
              (fw[i].err = NilErr <=>
                  /\ resp[i] # NoResp
                  /\ resp[i].status = 200
                  /\ IsJSON(resp[i].body))
    /\ FetcherReturned =>
          (fd_ret.err = NilErr <=>
              /\ fd_resp # NoHourlyResp
              /\ fd_resp.status = 200
              /\ IsJSON(fd_resp.body.kind)
              /\ fd_resp.body.series # <<>>)

\* the client was answered 204 with a valid payload, the fetcher 200 with
\* JSON that has no series: two failures
C33_Witness ==
    /\ N = 1
    /\ Resolved(1)
    /\ resp[1] = Response(204, "temp")
    /\ fw[1].err = Err("API returned status", 204, "none")
    /\ FetcherReturned
    /\ fd_resp = Response(StatusOK, [kind |-> "nofield", series |-> <<>>])
    /\ fd_ret.err = Err("no temperature data", 0, "none")

\* C34: no value is sent on a closed channel: when resultCh and contDoneCh
\* are closed every fetch goroutine has done its send and every observer has
\* done its send, and both channels have been emptied
C34_NoSendAfterClose ==
    closed =>
        /\ \A k \in Configured : fpc[k] \in {"sent", "done"}
        /\ \A c \in Conts : observer[c] = "sent"
        /\ resultCh = <<>>
        /\ contDoneCh = <<>>

\* the channels of a run with two continents and two cities are closed
C34_Witness ==
    /\ closed
    /\ Len(cfg) = 2
    /\ Total = 2
    /\ Len(weatherData) = 2
    /\ di = 2

\* a fetch is out and its client timeout has not run out yet
Waiting(i) == OnTheWire(i) /\ ~TimedOut(i)

\* C35: with a positive client timeout FetchMultiple cannot hang, whatever
\* the context and the remote endpoint do: until it has returned, either the
\* program can take a step by itself, or a fetch is still within its timeout
\* and time can pass; and a fetch that ended without a response ended as a
\* failure
C35_TimeoutBoundsEveryFetch ==
    /\ (timeout > 0 /\ mpc \in {"loop", "wait"}) =>
          \/ ENABLED ProgramStep
          \/ (\E i \in Idx : Waiting(i)) /\ ENABLED Tick
    /\ \A i \in Idx : (Resolved(i) /\ resp[i] = NoResp) => fw[i].err # NilErr

\* the context has no deadline and was not cancelled, no request was
\* answered: both fetches ran into the client timeout and FetchMultiple returned
C35_Witness ==
    /\ Returned
    /\ N = 2
    /\ timeout > 0
    /\ ~ctx.cancelled /\ ctx.remaining = -1
    /\ calls = 2
    /\ \A i \in Idx : resp[i] = NoResp /\ results[i].Error = Err("http request", 0, "timeout")

\* with fairness: a call with a positive client timeout returns
TimeoutLeadsToReturn == (timeout > 0) => <>Returned

\* C37: for an empty result list CompareWeatherData returns exactly "No
\* weather data to compare.", with no header and no section, whatever the
\* durations map holds
C37_EmptyListReport ==
    (Reported /\ weatherData = <<>>) =>
        /\ comparisonSummary.text = "No weather data to compare."
        /\ comparisonSummary.sections = <<>>

\* no results, and a durations map with three entries
C37_Witness ==
    /\ Reported
    /\ weatherData = <<>>
    /\ DOMAIN contDurations = {"Europe", "Asia", "Africa"}
    /\ comparisonSummary.text = "No weather data to compare."

\* C38: a section has the "Continent total wall time" line exactly when the
\* durations map has an entry for its continent, and every section has the
\* fetch time line, a section having at least one item
C38_WallLineIffDurationKnown ==
    Reported =>
        \A s \in 1..Len(Sections) :
            LET key == Sections[s].Continent
            IN  /\ Len(Sections[s].wall) = (IF key \in DOMAIN contDurations THEN 1 ELSE 0)
                /\ Members(key) # {}
                /\ Len(Sections[s].fetch) = 1

\* the durations map knows Europe and not Asia: the section of Europe has
\* the wall time line, the section of Asia has none, both have fetch times
C38_Witness ==
    /\ Reported
    /\ Len(Sections) = 2
    /\ DOMAIN contDurations = {"Europe", "Africa"}
    /\ \A s \in 1..2 :
          /\ Len(Sections[s].fetch) = 1
          /\ Sections[s].wall = IF Sections[s].Continent = "Europe" THEN <<1000>> ELSE <<>>

====
